---------------------------- MODULE Spec2Model ----------------------------
(***************************************************************************)
(* The adaptive card-set lifecycle of the flashcard generation agent:      *)
(*   - create_flashcards, the command-line workflow of main.py             *)
(*     (upload, generate, critique-revise loop, export or study session    *)
(*     with gap analysis and adaptive update, release of the uploaded      *)
(*     file in the finally block);                                         *)
(*   - the "Generate Flashcards" handler of streamlit_app.py;              *)
(*   - adaptive_update_flashcards of study_session.py called directly.     *)
(* The generation oracle (the OpenAI client) is the environment: each call *)
(* either raises or returns a value drawn from a bounded family.           *)
(***************************************************************************)
EXTENDS Integers, Sequences, FiniteSets, TLC

(* ------------------------------- bounds -------------------------------- *)

\* Largest card set the oracle returns (generate / revise).
MaxCards == 5
\* Largest --iterations argument tried (the CLI accepts any integer).
MaxIter == 2
\* Most cards the gap-card oracle returns.
MaxNew == 2
\* Distinct question texts in the card universe.
NumQuestions == 2
\* Most per-card (per-gap, per-removal) evaluations in a reply of the judge.
MaxEvaluated == 2
\* Most decks held at once, and most uploads, of one web session.
MaxDecks == 2
MaxUploads == 2
\* Longest card set and rating list handed directly to
\* adaptive_update_flashcards.
MaxOriginal == 3
MaxRatings == 3
\* The largest deck the study page starts from, and the number of decks and
\* saved study sessions, taken together, that st.session_state holds.
MaxStudied == 2
MaxStored == 3

(* ------------------------- program constants --------------------------- *)

\* file_id = None (falsy in "if file_id and not keep_file").
NoFile == 0
\* text_content = None.
NoText == "None"
\* max_iterations of the web UI.
WebMaxIterations == 1
\* StudyRating.difficulty of a card the learner knows well (mastered).
MinDifficulty == 1
\* The largest rating conduct_study_session accepts.
MaxDifficulty == 5

(* ------------------------------- cards --------------------------------- *)

\* The k-th card of the universe: a Flashcard {question, answer}. Cards
\* k and k + NumQuestions share their question text and differ in answer.
CardAt(k) == [question |-> ((k - 1) % NumQuestions) + 1, answer |-> k]

\* A FlashcardSet of n cards as the oracle returns it.
CardSet(n) == [k \in 1..n |-> CardAt(k)]

\* The card sets generate / revise may return.
OracleSets == {CardSet(n) : n \in 0..MaxCards}

\* The gap-filling cards the oracle may return: m cards not in any CardSet.
NewCards(m) == [k \in 1..m |-> CardAt(MaxCards + k)]

OracleNewCards == {NewCards(m) : m \in 0..MaxNew}

\* python: seq[i] for an int i, 0-based, negative i counting from the end.
InRange(seq, i) == (-Len(seq)) <= i /\ i < Len(seq)

PyIndex(seq, i) == IF i >= 0 THEN seq[i + 1] ELSE seq[Len(seq) + i + 1]

(* ------------------------------- state --------------------------------- *)

VARIABLES
    prog,                  \* "cli" (main.py) | "web" (streamlit_app.py) | "lib"
    pc,                    \* position in the running workflow / handler
    file_path,             \* the input file: [exists, suffix]
    max_iterations,
    keep_file,
    enable_study_session,
    file_id,               \* local file_id (NoFile = None)
    text_content,          \* local text_content (NoText = None)
    flashcards,            \* local flashcards / current_flashcards
    i,                     \* loop variable of "for i in range(max_iterations)"
    is_acceptable,         \* critique.is_acceptable of the last critique
    session,               \* StudySession
    gaps,                  \* KnowledgeGaps
    adaptive_result,       \* AdaptiveUpdate
    err,                   \* the exception in flight, or the one the call
                           \* ended with / the page reports ("none")
    returned,              \* the value create_flashcards returned
    calls,                 \* number of calls made, per external operation
    exported,              \* card sets handed to export_to_anki, in order
    remote_files,          \* handles alive at the file service
    release_calls,         \* cleanup_file calls per handle
    next_handle,           \* the id the next upload gets
    last_revised,          \* history: what the last revise call returned
    judged,                \* history: the set the accepting critique judged
    flashcard_decks,       \* st.session_state.flashcard_decks
    selected_deck,         \* st.session_state.selected_deck
    deck_name,             \* local deck_name of the generate handler
    idx,                   \* conduct_study_session: idx of enumerate(...)
    ratings,               \* conduct_study_session: ratings /
                           \* st.session_state.ratings
    shown,                 \* history: the indices of the cards presented
    current_flashcard_index, \* st.session_state.current_flashcard_index
    show_answer,           \* st.session_state.show_answer
    before,                \* history: the deck as the save action found it
    previous,              \* history: what the previous call returned
    evaluation,            \* evaluator.py: evaluation, as returned
    removed_cards_text     \* evaluate_adaptation: the user rating written
                           \* next to each removed card

vars == <<prog, pc, file_path, max_iterations, keep_file, enable_study_session,
          file_id, text_content, flashcards, i, is_acceptable, session, gaps,
          adaptive_result, err, returned, calls, exported,
          remote_files, release_calls, next_handle, last_revised, judged,
          flashcard_decks, selected_deck, deck_name, idx, ratings, shown,
          current_flashcard_index, show_answer, before, previous,
          evaluation, removed_cards_text>>

args == <<prog, file_path, max_iterations, keep_file, enable_study_session>>
study == <<session, gaps, adaptive_result>>
web == <<flashcard_decks, selected_deck, deck_name>>
files == <<remote_files, release_calls, next_handle>>
history == <<last_revised, judged>>
recorder == <<idx, ratings, shown>>
page == <<current_flashcard_index, show_answer>>
judging == <<evaluation, removed_cards_text>>
progress == <<recorder, page, before, previous, judging>>

Handles == 1..MaxUploads

Operations == {"upload", "generate", "critique", "revise", "analyze",
               "gapcards", "export_pkg", "export_txt", "release", "evaluate"}

OracleOps == {"generate", "critique", "revise", "analyze", "gapcards"}

Called(op) == [calls EXCEPT ![op] = @ + 1]

OracleCalls == calls["generate"] + calls["critique"] + calls["revise"]
               + calls["analyze"] + calls["gapcards"]

NoSession == [flashcards |-> <<>>, ratings |-> <<>>, timestamp |-> "None"]
NoGaps == [critical_gaps |-> <<>>, weak_areas |-> <<>>,
           recommended_removals |-> <<>>, gap_report |-> "None"]
NoUpdate == [original_count |-> 0, cards_removed |-> <<>>, cards_added |-> <<>>,
             final_flashcards |-> <<>>, gap_report |-> "None"]
NoJudged == <<[question |-> 0, answer |-> 0]>>
NoBefore == [name |-> "None", flashcards |-> <<>>, adaptive_update |-> NoUpdate]
NoPrevious == [cards_removed |-> <<>>, kept |-> NoJudged]
\* evaluation before the judge has replied: no list, nothing derived.
NoEvaluation == [flashcard_evaluations |-> <<>>, average_scores |-> <<>>,
                 overall_deck_score |-> <<>>]

\* The --iterations values tried: argparse takes any int.
IterationArgs == (-1)..MaxIter

FilePaths == [exists : BOOLEAN, suffix : {".pdf", ".txt", ".doc"}]


(* --------------------- the study-session data path --------------------- *)

\* What the learner types at "Enter difficulty rating (1-5): ".
TypedLines == {"1", "3", "0", "6", "abc"}

\* int(line): the number, or ValueError for a line that is not one.
IsInteger(line) == line \in {"0", "1", "3", "6"}

IntOf(line) ==
    CASE line = "0" -> 0 [] line = "1" -> 1 [] line = "3" -> 3 [] line = "6" -> 6

\* Mutant: any number is taken as a rating.
AnyRating(rating) == TRUE

\* "if 1 <= rating <= 5:"
ValidRating(rating) == MinDifficulty <= rating /\ rating <= MaxDifficulty

\* The difficulties of the ratings of a session handed to the library call.
SessionDifficulties == {MinDifficulty, 2, 3}

\* The KnowledgeGaps replies of the oracle: each list empty or not, and no
\* removal recommended.
GapsReplies ==
    [critical_gaps : {<<>>, <<"gap">>}, weak_areas : {<<>>, <<"weak">>},
     recommended_removals : {<<>>}, gap_report : {"report"}]

\* recommended_removals: list[int] is whatever the oracle sends: nothing, the
\* first index, or the first index past the cards of the session.
RemovalLists(cards) == {<<>>, <<0>>, <<Len(cards)>>}

\* KnowledgeGaps.model_validate_json(...): the replies to the analysis of a
\* session over `cards`.
AnalysisReplies(cards) ==
    {[g EXCEPT !.recommended_removals = r] :
        g \in GapsReplies, r \in RemovalLists(cards)}

\* analyze_knowledge_gaps formats session.flashcards[rating.flashcard_index]
\* for every rating before it calls the oracle: IndexError out of range.
FormatFails(s) ==
    \E n \in 1..Len(s.ratings) :
        ~InRange(s.flashcards, s.ratings[n].flashcard_index)

\* Mutant: cards rated "easy" count as mastered too.
MasteredUpToEasy(rated) ==
    {rated[j].flashcard_index :
        j \in {n \in 1..Len(rated) : rated[n].difficulty <= 2}}

\* Mutant: the last rating of a card decides.
MasteredByLastRating(rated) ==
    {rated[j].flashcard_index :
        j \in {n \in 1..Len(rated) :
                 /\ rated[n].difficulty = 1
                 /\ \A k \in (n + 1)..Len(rated) :
                       rated[k].flashcard_index # rated[n].flashcard_index}}

\* mastered_indices: the indices rated difficulty == 1.
MasteredIndices(rated) ==
    {rated[j].flashcard_index :
        j \in {n \in 1..Len(rated) : rated[n].difficulty = 1}}

\* Mutant: the indices the oracle recommends are removed as well.
MasteredOrRecommended(s, g) ==
    MasteredIndices(s.ratings)
    \cup {g.recommended_removals[n] : n \in 1..Len(g.recommended_removals)}

\* adaptive_update_flashcards(original, session, gaps, ...) reads
\* session.ratings for the mastered set, and nothing of gaps.
MasteredOf(s, g) == MasteredIndices(s.ratings)

\* Mutant: the enumeration is compared one off (enumerate(..., 1)).
RECURSIVE KeptCardsFromOne(_, _, _)
KeptCardsFromOne(original, mastered, pos) ==
    IF pos >= Len(original) THEN <<>>
    ELSE (IF pos + 1 \in mastered THEN <<>> ELSE <<original[pos + 1]>>)
         \o KeptCardsFromOne(original, mastered, pos + 1)

\* kept_cards = [fc for idx, fc in enumerate(original) if idx not in mastered]
RECURSIVE KeptCards(_, _, _)
KeptCards(original, mastered, pos) ==
    IF pos >= Len(original) THEN <<>>
    ELSE (IF pos \in mastered THEN <<>> ELSE <<original[pos + 1]>>)
         \o KeptCards(original, mastered, pos + 1)

\* removed_cards = [original.flashcards[i] for i in mastered_indices]:
\* IndexError when an index is out of range. The list is built by iterating
\* a set, whose order python leaves open, so it is kept as the entries
\* themselves: one per iterated index, with no position among them.
RemovalFails(original, mastered) ==
    \E m \in mastered : ~InRange(original, m)

RemovedCards(original, mastered) ==
    [m \in mastered |-> PyIndex(original, m)]

\* len(update.cards_removed)
LenRemoved(removed) == Cardinality(DOMAIN removed)

\* Mutant: only critical gaps count.
NoCriticalGaps(g) == g.critical_gaps = <<>>

\* generate_gap_filling_cards returns [] without calling the oracle.
NoGapsIdentified(g) == g.critical_gaps = <<>> /\ g.weak_areas = <<>>

\* Mutant: the new cards come first.
NewCardsFirst(kept, new) == new \o kept

\* final_cards = kept_cards + new_cards
FinalCards(kept, new) == kept \o new

\* The AdaptiveUpdate that adaptive_update_flashcards builds.
MakeUpdate(original, removed, kept, new, g) ==
    [original_count   |-> Len(original),
     cards_removed    |-> removed,
     cards_added      |-> new,
     final_flashcards |-> FinalCards(kept, new),
     gap_report       |-> g.gap_report]

(* ------------------------- exceptions and exits ------------------------ *)

\* Mutant: create_flashcards swallows the exception and carries on after
\* the loop.
RaiseSwallowed(p) ==
    IF p = "cli" THEN "after_loop" ELSE IF p = "web" THEN "idle" ELSE "done"

\* Where an exception raised inside the try block takes control: the finally
\* block of create_flashcards, the except/finally of the web handler (which
\* reports it and returns to the page), or out of a library call.
RaiseTarget(p) ==
    IF p = "cli" THEN "finally" ELSE IF p = "web" THEN "idle" ELSE "done"

Raise(e) ==
    /\ err' = e
    /\ pc' = RaiseTarget(prog)

(* ------------------- create_flashcards: upload, generate ---------------- *)

\* upload_pdf(file_path)
CliUpload ==
    /\ prog = "cli" /\ pc = "start"
    /\ UNCHANGED <<progress, args, flashcards, i, is_acceptable, study, returned,
                   exported, release_calls, history, web, text_content>>
    /\ \/ /\ ~file_path.exists
          /\ Raise("FileNotFoundError")
          /\ UNCHANGED <<file_id, calls, remote_files, next_handle>>
       \/ /\ file_path.exists /\ file_path.suffix # ".pdf"
          /\ Raise("ValueError")
          /\ UNCHANGED <<file_id, calls, remote_files, next_handle>>
       \/ /\ file_path.exists /\ file_path.suffix = ".pdf"
          /\ calls' = Called("upload")
          /\ Raise("upload")
          /\ UNCHANGED <<file_id, remote_files, next_handle>>
       \/ /\ file_path.exists /\ file_path.suffix = ".pdf"
          /\ calls' = Called("upload")
          /\ file_id' = next_handle
          /\ remote_files' = remote_files \cup {next_handle}
          /\ next_handle' = next_handle + 1
          /\ pc' = "generate"
          /\ UNCHANGED err

\* Mutant: only a call with no source at all is refused.
SourceMissing(fid, text) == fid = NoFile /\ text = NoText

\* generate_flashcards: "must provide exactly one of file_id or text_content".
SourceInvalid(fid, text) == (fid = NoFile) = (text = NoText)

\* generate_flashcards_with_file_id(file_id) / generate_flashcards(...)
Generate ==
    /\ prog \in {"cli", "web"} /\ pc = "generate"
    /\ UNCHANGED <<progress, args, file_id, text_content, is_acceptable, study, returned,
                   exported, files, history, web>>
    /\ \/ /\ prog = "web" /\ SourceInvalid(file_id, text_content)
          /\ Raise("ValueError")
          /\ UNCHANGED <<calls, flashcards, i>>
       \/ /\ prog = "web" => ~SourceInvalid(file_id, text_content)
          /\ calls' = Called("generate")
          /\ \/ /\ Raise("generate")
                /\ UNCHANGED <<flashcards, i>>
             \/ /\ \E reply \in OracleSets : flashcards' = reply
                /\ i' = 0
                /\ pc' = "loop"
                /\ UNCHANGED err

(* ------------------------ the critique-revise loop --------------------- *)

\* Mutant: the loop runs once more than its budget.
LoopContinuesOnceMore(n, k) == n <= k

\* Mutant: the body runs before the budget is looked at.
LoopRunsAtLeastOnce(n, k) == n < k \/ n = 0

\* "for i in range(max_iterations)": another iteration after n completed ones.
LoopContinues(n, k) == n < k

\* Mutant: the break is missing.
NeverBreaks(acceptable) == FALSE

\* Mutant: the loop is left on rejection instead.
BreaksOnRejection(acceptable) == ~acceptable

\* "if critique.is_acceptable: break"
BreaksOn(acceptable) == acceptable

\* Mutant: the revision is not assigned.
RevisionDropped(old, revised) == old

\* "flashcards = revise_flashcards(flashcards, critique, model)"
AfterRevise(old, revised) == revised

\* The range is exhausted: control leaves the loop.
LoopExit ==
    /\ prog \in {"cli", "web"} /\ pc = "loop"
    /\ ~LoopContinues(i, max_iterations)
    /\ pc' = "after_loop"
    /\ UNCHANGED <<progress, args, file_id, text_content, flashcards, i, is_acceptable,
                   study, err, returned, calls, exported, files,
                   history, web>>

\* critique_flashcards(flashcards, model), then the break or the fall through
\* to the revision.
Critique ==
    /\ prog \in {"cli", "web"} /\ pc = "loop"
    /\ LoopContinues(i, max_iterations)
    /\ calls' = Called("critique")
    /\ UNCHANGED <<progress, args, file_id, text_content, flashcards, i, study, returned,
                   exported, files, last_revised, web>>
    /\ \/ /\ Raise("critique")
          /\ UNCHANGED <<is_acceptable, judged>>
       \/ /\ \E reply \in BOOLEAN :
                /\ is_acceptable' = reply
                /\ judged' = IF reply THEN flashcards ELSE judged
                /\ pc' = IF BreaksOn(reply) THEN "after_loop" ELSE "revise"
          /\ UNCHANGED err

\* revise_flashcards(flashcards, critique, model), end of the loop body.
Revise ==
    /\ prog \in {"cli", "web"} /\ pc = "revise"
    /\ calls' = Called("revise")
    /\ UNCHANGED <<progress, args, file_id, text_content, is_acceptable, study, returned,
                   exported, files, judged, web>>
    /\ \/ /\ Raise("revise")
          /\ UNCHANGED <<flashcards, i, last_revised>>
       \/ /\ \E reply \in OracleSets :
                /\ flashcards' = AfterRevise(flashcards, reply)
                /\ last_revised' = reply
          /\ i' = i + 1
          /\ pc' = "loop"
          /\ UNCHANGED err

(* ----------------- create_flashcards: export and study ----------------- *)

\* export_to_anki(cards, ...) followed by the text file; then
\* "return value" (control passes to the finally block).
ExportAndReturn(cards, value) ==
    /\ exported' = Append(exported, cards)
    /\ \/ /\ calls' = Called("export_pkg")
          /\ Raise("export_pkg")
          /\ UNCHANGED returned
       \/ /\ calls' = [calls EXCEPT !["export_pkg"] = @ + 1,
                                    !["export_txt"] = @ + 1]
          /\ Raise("export_txt")
          /\ UNCHANGED returned
       \/ /\ calls' = [calls EXCEPT !["export_pkg"] = @ + 1,
                                    !["export_txt"] = @ + 1]
          /\ returned' = value
          /\ pc' = "finally"
          /\ UNCHANGED err

\* "if not enable_study_session:" export directly.
ExportPlain ==
    /\ prog = "cli" /\ pc = "after_loop"
    /\ ~enable_study_session
    /\ ExportAndReturn(flashcards, flashcards)
    /\ UNCHANGED <<progress, args, file_id, text_content, flashcards, i, is_acceptable,
                   study, files, history, web>>

\* "Would you like to start a study session? (y/n)"
AskStudy ==
    /\ prog = "cli" /\ pc = "after_loop"
    /\ enable_study_session
    /\ UNCHANGED <<progress, args, file_id, text_content, flashcards, i, is_acceptable,
                   study, files, history, web>>
    /\ \/ /\ pc' = "study"
          /\ UNCHANGED <<err, returned, calls, exported>>
       \/ ExportAndReturn(flashcards, flashcards)

\* conduct_study_session(original_flashcards): the banner and the first
\* input(), which raises EOFError when the input has ended.
ConductStudySession ==
    /\ prog = "cli" /\ pc = "study"
    /\ UNCHANGED <<args, file_id, text_content, flashcards, i, is_acceptable,
                   study, returned, calls, exported, files, history, web,
                   page, before, previous, judging>>
    /\ \/ /\ Raise("EOFError")
          /\ UNCHANGED recorder
       \/ /\ idx' = 0
          /\ ratings' = <<>>
          /\ shown' = <<>>
          /\ pc' = "present"
          /\ UNCHANGED err

\* "for idx, flashcard in enumerate(flashcard_set.flashcards)": the next card
\* is printed and input() waits for Enter; after the last card the
\* StudySession is returned.
PresentCard ==
    /\ prog = "cli" /\ pc = "present"
    /\ UNCHANGED <<args, file_id, text_content, flashcards, i, is_acceptable,
                   gaps, adaptive_result, returned, calls, exported, files,
                   history, web, idx, ratings, page, before, previous, judging>>
    /\ \/ /\ idx < Len(flashcards)
          /\ shown' = Append(shown, idx)
          /\ \/ Raise("EOFError")
             \/ pc' = "rate" /\ UNCHANGED err
          /\ UNCHANGED session
       \/ /\ idx >= Len(flashcards)
          /\ session' = [flashcards |-> flashcards, ratings |-> ratings,
                         timestamp |-> "now"]
          /\ pc' = "analyze"
          /\ UNCHANGED <<shown, err>>

\* "while True:" one line is read: a valid rating is appended and the loop
\* moves to the next card; anything else prints a hint and asks again.
EnterRating ==
    /\ prog = "cli" /\ pc = "rate"
    /\ UNCHANGED <<args, file_id, text_content, flashcards, i, is_acceptable,
                   study, returned, calls, exported, files, history, web,
                   shown, page, before, previous, judging>>
    /\ \/ /\ Raise("EOFError")
          /\ UNCHANGED <<idx, ratings>>
       \/ \E line \in TypedLines :
             \/ /\ ~IsInteger(line)
                /\ UNCHANGED <<idx, ratings, pc, err>>
             \/ /\ IsInteger(line) /\ ~ValidRating(IntOf(line))
                /\ UNCHANGED <<idx, ratings, pc, err>>
             \/ /\ IsInteger(line) /\ ValidRating(IntOf(line))
                /\ ratings' = Append(ratings, [flashcard_index |-> idx,
                                               difficulty |-> IntOf(line)])
                /\ idx' = idx + 1
                /\ pc' = "present"
                /\ UNCHANGED err

\* analyze_knowledge_gaps(session, file_id, model)
AnalyzeKnowledgeGaps ==
    /\ prog = "cli" /\ pc = "analyze"
    /\ UNCHANGED <<progress, args, file_id, text_content, flashcards, i,
                   is_acceptable, session, adaptive_result, returned,
                   exported, files, history, web>>
    /\ \/ /\ FormatFails(session)
          /\ Raise("IndexError")
          /\ UNCHANGED <<gaps, calls>>
       \/ /\ ~FormatFails(session)
          /\ calls' = Called("analyze")
          /\ \/ /\ Raise("analyze")
                /\ UNCHANGED gaps
             \/ /\ \E reply \in AnalysisReplies(session.flashcards) :
                      gaps' = reply
                /\ pc' = "adapt"
                /\ UNCHANGED err

\* adaptive_update_flashcards(original, session, gaps, ...): the removal and
\* the kept cards, then generate_gap_filling_cards, then the AdaptiveUpdate.
\* `checked` says whether generate_gap_filling_cards validates its source
\* (openai_client.py does, main.py's copy does not).
AdaptiveUpdateFlashcards(original, checked, next) ==
    LET mastered == MasteredOf(session, gaps)
        kept == KeptCards(original, mastered, 0)
    IN  \/ /\ RemovalFails(original, mastered)
           /\ Raise("IndexError")
           /\ UNCHANGED <<adaptive_result, calls>>
        \/ /\ ~RemovalFails(original, mastered)
           /\ NoGapsIdentified(gaps)
           /\ adaptive_result' =
                    MakeUpdate(original, RemovedCards(original, mastered),
                               kept, <<>>, gaps)
           /\ pc' = next
           /\ UNCHANGED <<calls, err>>
        \/ /\ ~RemovalFails(original, mastered)
           /\ ~NoGapsIdentified(gaps)
           /\ checked /\ SourceInvalid(file_id, text_content)
           /\ Raise("ValueError")
           /\ UNCHANGED <<adaptive_result, calls>>
        \/ /\ ~RemovalFails(original, mastered)
           /\ ~NoGapsIdentified(gaps)
           /\ checked => ~SourceInvalid(file_id, text_content)
           /\ calls' = Called("gapcards")
           /\ \/ /\ Raise("gapcards")
                 /\ UNCHANGED adaptive_result
              \/ /\ \E new \in OracleNewCards :
                       adaptive_result' =
                           MakeUpdate(original, RemovedCards(original, mastered),
                                      kept, new, gaps)
                 /\ pc' = next
                 /\ UNCHANGED err

\* adaptive_update_flashcards(original_flashcards, session, gaps, file_id)
CliAdaptiveUpdate ==
    /\ prog = "cli" /\ pc = "adapt"
    /\ AdaptiveUpdateFlashcards(flashcards, FALSE, "export_adaptive")
    /\ UNCHANGED <<progress, args, file_id, text_content, flashcards, i, is_acceptable,
                   session, gaps, returned, exported, files, history, web>>

\* export of the adaptive deck, gap report, text file;
\* "return adaptive_result.final_flashcards"
ExportAdaptive ==
    /\ prog = "cli" /\ pc = "export_adaptive"
    /\ ExportAndReturn(adaptive_result.final_flashcards,
                       adaptive_result.final_flashcards)
    /\ UNCHANGED <<progress, args, file_id, text_content, flashcards, i, is_acceptable,
                   study, files, history, web>>

(* ---------------------- the release of the handle ---------------------- *)

\* Mutant: keep_file is ignored.
CleanupAlways(fid, keep) == fid # NoFile

\* "if file_id and not keep_file:"
ShouldCleanup(fid, keep) == fid # NoFile /\ ~keep

\* Mutant: cleanup_file lets the failure of the delete out.
CleanupRaises(e, deleted) == IF deleted THEN e ELSE "release"

\* cleanup_file: "except Exception as e" prints and logs; the exception in
\* flight (if any) is the one the workflow had before the call.
AfterCleanup(e, deleted) == e

\* cleanup_file(fid): client.files.delete succeeds or raises.
CleanupFile(fid, deleted) ==
    /\ calls' = Called("release")
    /\ release_calls' = [release_calls EXCEPT ![fid] = @ + 1]
    /\ remote_files' = IF deleted THEN remote_files \ {fid} ELSE remote_files

\* The finally block of create_flashcards, and the way out of the function:
\* at "done" the call has returned `returned` (err = "none") or raised err.
Finally ==
    /\ prog = "cli" /\ pc = "finally"
    /\ pc' = "done"
    /\ UNCHANGED <<progress, args, file_id, text_content, flashcards, i, is_acceptable,
                   study, returned, exported, next_handle, history, web>>
    /\ \/ /\ ShouldCleanup(file_id, keep_file)
          /\ \E deleted \in BOOLEAN :
                /\ CleanupFile(file_id, deleted)
                /\ err' = AfterCleanup(err, deleted)
       \/ /\ ~ShouldCleanup(file_id, keep_file)
          /\ UNCHANGED <<err, calls, release_calls, remote_files>>

(* ------------------------------ programs -------------------------------- *)

NoCalls == [op \in Operations |-> 0]

InitLocals ==
    /\ file_id = NoFile
    /\ text_content = NoText
    /\ flashcards = <<>>
    /\ i = 0
    /\ is_acceptable = FALSE
    /\ session = NoSession
    /\ gaps = NoGaps
    /\ adaptive_result = NoUpdate
    /\ err = "none"
    /\ returned = <<>>
    /\ calls = NoCalls
    /\ exported = <<>>
    /\ remote_files = {}
    /\ release_calls = [h \in Handles |-> 0]
    /\ next_handle = 1
    /\ last_revised = NoJudged
    /\ judged = NoJudged
    /\ idx = 0
    /\ ratings = <<>>
    /\ shown = <<>>
    /\ current_flashcard_index = 0
    /\ show_answer = FALSE
    /\ before = NoBefore
    /\ previous = NoPrevious
    /\ evaluation = NoEvaluation
    /\ removed_cards_text = <<>>

\* python main.py <pdf_file> --iterations k [--keep-file] [--study-session]
InitCLI ==
    /\ prog = "cli"
    /\ pc = "start"
    /\ file_path \in FilePaths
    /\ max_iterations \in IterationArgs
    /\ keep_file \in BOOLEAN
    /\ enable_study_session \in BOOLEAN
    /\ InitLocals
    /\ flashcard_decks = <<>>
    /\ selected_deck = "None"
    /\ deck_name = "None"

NextCLI ==
    \/ CliUpload
    \/ Generate
    \/ LoopExit
    \/ Critique
    \/ Revise
    \/ ExportPlain
    \/ AskStudy
    \/ ConductStudySession
    \/ PresentCard
    \/ EnterRating
    \/ AnalyzeKnowledgeGaps
    \/ CliAdaptiveUpdate
    \/ ExportAdaptive
    \/ Finally

SpecCLI == InitCLI /\ [][NextCLI]_vars

(* ------------- streamlit_app.py: the "Generate Flashcards" tab ---------- *)

\* What the user may type as deck name ("" = left empty).
DeckNameInputs == {"", "Deck 2", "Bio"}

\* f"Deck {len(st.session_state.flashcard_decks) + 1}"
DefaultDeckName(n) == IF n = 0 THEN "Deck 1" ELSE IF n = 1 THEN "Deck 2"
                      ELSE IF n = 2 THEN "Deck 3" ELSE "Deck N"

DeckNames == {flashcard_decks[n].name : n \in 1..Len(flashcard_decks)}

\* The dict entry stored for a new deck.
NewDeck(name, cards, fid, text) ==
    [name |-> name, flashcards |-> cards, file_id |-> fid,
     text_content |-> text, study_sessions |-> <<>>,
     knowledge_gaps |-> NoGaps, adaptive_update |-> NoUpdate]

\* "if generate_button:" with an uploaded file of the given suffix: the deck
\* name is defaulted and stripped; an existing name only shows a warning.
WebGenerateClick ==
    /\ prog = "web" /\ pc = "idle"
    /\ Len(flashcard_decks) < MaxDecks
    /\ next_handle <= MaxUploads
    /\ \E typed \in DeckNameInputs, suffix \in {".pdf", ".txt"} :
        LET name == IF typed = "" THEN DefaultDeckName(Len(flashcard_decks))
                    ELSE typed
        IN  /\ deck_name' = name
            /\ file_path' = [exists |-> TRUE, suffix |-> suffix]
            /\ pc' = IF name \in DeckNames THEN "idle" ELSE "prepare"
    /\ file_id' = NoFile
    /\ text_content' = NoText
    /\ flashcards' = <<>>
    /\ i' = 0
    /\ is_acceptable' = FALSE
    /\ err' = "none"
    /\ calls' = NoCalls
    /\ last_revised' = NoJudged
    /\ judged' = NoJudged
    /\ UNCHANGED <<progress, prog, max_iterations, keep_file, enable_study_session, study,
                   returned, exported, files, flashcard_decks,
                   selected_deck>>

\* Mutant: whatever is not a PDF is read as text.
ReadUnlessPdf(suffix) == suffix # ".pdf"

\* "elif suffix in ['.txt', '.text']:"
ReadAsText(suffix) == suffix \in {".txt", ".text"}

\* prepare_input(file_path): upload a PDF, read a text file, refuse a
\* missing file and any other suffix.
PrepareInput(next) ==
    /\ \/ /\ ~file_path.exists
          /\ Raise("FileNotFoundError")
          /\ UNCHANGED <<file_id, text_content, calls, remote_files,
                         next_handle>>
       \/ /\ file_path.exists /\ file_path.suffix = ".pdf"
          /\ calls' = Called("upload")
          /\ Raise("upload")
          /\ UNCHANGED <<file_id, text_content, remote_files, next_handle>>
       \/ /\ file_path.exists /\ file_path.suffix = ".pdf"
          /\ calls' = Called("upload")
          /\ file_id' = next_handle
          /\ remote_files' = remote_files \cup {next_handle}
          /\ next_handle' = next_handle + 1
          /\ pc' = next
          /\ UNCHANGED <<text_content, err>>
       \/ /\ file_path.exists /\ file_path.suffix # ".pdf"
          /\ ReadAsText(file_path.suffix)
          /\ text_content' = "text"
          /\ pc' = next
          /\ UNCHANGED <<file_id, calls, remote_files, next_handle, err>>
       \/ /\ file_path.exists /\ file_path.suffix # ".pdf"
          /\ ~ReadAsText(file_path.suffix)
          /\ Raise("ValueError")
          /\ UNCHANGED <<file_id, text_content, calls, remote_files,
                         next_handle>>

\* "file_id, text_content = prepare_input(tmp_path)"
WebPrepareInput ==
    /\ prog = "web" /\ pc = "prepare"
    /\ PrepareInput("generate")
    /\ UNCHANGED <<progress, args, flashcards, i, is_acceptable, study, returned,
                   exported, release_calls, history, web>>

\* "Store deck": the new entry, the selection, st.rerun().
WebStoreDeck ==
    /\ prog = "web" /\ pc = "after_loop"
    /\ flashcard_decks' =
          Append(flashcard_decks,
                 NewDeck(deck_name, flashcards, file_id, text_content))
    /\ selected_deck' = deck_name
    /\ pc' = "idle"
    /\ UNCHANGED <<progress, args, file_id, text_content, flashcards, i, is_acceptable,
                   study, err, returned, calls, exported, files,
                   history, deck_name>>

\* The decks whose "file_id" is set, in dict order.
DecksWithFile == {n \in 1..Len(flashcard_decks) :
                     flashcard_decks[n].file_id # NoFile}

\* "Reset Session": cleanup_file for every deck with a file_id, then every
\* key of st.session_state is deleted and the script starts over.
WebResetSession ==
    /\ prog = "web" /\ pc = "idle"
    /\ flashcard_decks # <<>>
    /\ \E deleted \in SUBSET DecksWithFile :
         /\ remote_files' =
               remote_files \ {flashcard_decks[n].file_id : n \in deleted}
         /\ release_calls' =
               [h \in Handles |->
                  release_calls[h]
                  + Cardinality({n \in DecksWithFile :
                                    flashcard_decks[n].file_id = h})]
    /\ calls' = [NoCalls EXCEPT !["release"] = Cardinality(DecksWithFile)]
    /\ flashcard_decks' = <<>>
    /\ selected_deck' = "None"
    /\ current_flashcard_index' = 0
    /\ ratings' = <<>>
    /\ show_answer' = FALSE
    /\ UNCHANGED <<args, pc, file_id, text_content, flashcards, i,
                   is_acceptable, study, err, returned, exported,
                   next_handle, history, deck_name, idx, shown, before,
                   previous, judging>>

InitWeb ==
    /\ prog = "web"
    /\ pc = "idle"
    /\ file_path = [exists |-> TRUE, suffix |-> ".pdf"]
    /\ max_iterations = WebMaxIterations
    /\ keep_file = FALSE
    /\ enable_study_session = FALSE
    /\ InitLocals
    /\ flashcard_decks = <<>>
    /\ selected_deck = "None"
    /\ deck_name = "None"

NextWeb ==
    \/ WebGenerateClick
    \/ WebPrepareInput
    \/ Generate
    \/ LoopExit
    \/ Critique
    \/ Revise
    \/ WebStoreDeck
    \/ WebResetSession

SpecWeb == InitWeb /\ [][NextWeb]_vars

(* ---------------- streamlit_app.py: the "Study" tab -------------------- *)

\* The position of the deck called `name` in the dict.
DeckIndex(name) ==
    CHOOSE n \in 1..Len(flashcard_decks) : flashcard_decks[n].name = name

\* get_current_deck()
HasCurrentDeck == selected_deck \in DeckNames

CurrentDeck == flashcard_decks[DeckIndex(selected_deck)]

\* The study page shows a card: the deck has cards and
\* current_flashcard_index < len(flashcards).
InProgress ==
    /\ HasCurrentDeck
    /\ current_flashcard_index < Len(CurrentDeck.flashcards)

\* The study page shows "Study Session Complete!" and its two buttons.
SessionComplete ==
    /\ HasCurrentDeck
    /\ Len(CurrentDeck.flashcards) # 0
    /\ current_flashcard_index >= Len(CurrentDeck.flashcards)

\* The rating buttons clicked: 1 (mastered) and 3.
ClickedDifficulties == {MinDifficulty, 3}

\* Mutant: a saved session replaces the ones stored before.
SessionOverwrites(deck, s) == [deck EXCEPT !.study_sessions = <<s>>]

\* current_deck["study_sessions"].append(session)
WithSession(deck, s) == [deck EXCEPT !.study_sessions = Append(@, s)]

\* Mutant: the deck is emptied as soon as the gaps are known.
WithGapsAndEmptied(deck, g) ==
    [deck EXCEPT !.knowledge_gaps = g, !.flashcards = <<>>]

\* current_deck["knowledge_gaps"] = gaps
WithGaps(deck, g) == [deck EXCEPT !.knowledge_gaps = g]

\* current_deck["adaptive_update"] = update
\* current_deck["flashcards"] = update.final_flashcards
WithUpdate(deck, update) ==
    [deck EXCEPT !.adaptive_update = update,
                 !.flashcards = update.final_flashcards]

\* The number of sessions stored in all decks.
RECURSIVE StoredSessions(_)
StoredSessions(n) ==
    IF n = 0 THEN 0
    ELSE Len(flashcard_decks[n].study_sessions) + StoredSessions(n - 1)

\* The selectbox "Select Deck to Study" is set to another deck.
WebSelectDeck ==
    /\ prog = "web" /\ pc = "idle"
    /\ \E name \in DeckNames \ {selected_deck} : selected_deck' = name
    /\ UNCHANGED <<args, pc, file_id, text_content, flashcards, i, is_acceptable,
                   study, err, returned, calls, exported, files, history,
                   flashcard_decks, deck_name, progress>>

\* "Show Correct Answer" / "Hide Answer"
WebShowAnswer ==
    /\ prog = "web" /\ pc = "idle"
    /\ InProgress
    /\ show_answer' = ~show_answer
    /\ UNCHANGED <<args, pc, file_id, text_content, flashcards, i, is_acceptable,
                   study, err, returned, calls, exported, files, history,
                   web, recorder, current_flashcard_index, before, previous, judging>>

\* A rating button: the rating of the card on show is appended and the page
\* moves to the next index.
WebRate ==
    /\ prog = "web" /\ pc = "idle"
    /\ InProgress /\ show_answer
    /\ Len(ratings) < MaxRatings
    /\ \E d \in ClickedDifficulties :
          ratings' = Append(ratings,
                            [flashcard_index |-> current_flashcard_index,
                             difficulty |-> d])
    /\ current_flashcard_index' = current_flashcard_index + 1
    /\ show_answer' = FALSE
    /\ UNCHANGED <<args, pc, file_id, text_content, flashcards, i, is_acceptable,
                   study, err, returned, calls, exported, files, history,
                   web, idx, shown, before, previous, judging>>

\* Mutant: the ratings are not emptied.
ResetIndexOnly ==
    /\ current_flashcard_index' = 0
    /\ UNCHANGED ratings
    /\ show_answer' = FALSE

\* reset_study_session()
ResetStudySession ==
    /\ current_flashcard_index' = 0
    /\ ratings' = <<>>
    /\ show_answer' = FALSE

\* "Restart Study Session"
WebRestart ==
    /\ prog = "web" /\ pc = "idle"
    /\ SessionComplete
    /\ ResetStudySession
    /\ UNCHANGED <<args, pc, file_id, text_content, flashcards, i, is_acceptable,
                   study, err, returned, calls, exported, files, history,
                   web, idx, shown, before, previous, judging>>

\* "Save Study Session": the StudySession is built from the cards of the
\* current deck and st.session_state.ratings and appended to the deck; the
\* analysis follows if the deck has its source.
WebSaveSession ==
    /\ prog = "web" /\ pc = "idle"
    /\ SessionComplete
    /\ Len(flashcard_decks) + StoredSessions(Len(flashcard_decks)) < MaxStored
    /\ LET deck == CurrentDeck
           made == [flashcards |-> deck.flashcards, ratings |-> ratings,
                    timestamp |-> "now"]
       IN  /\ session' = made
           /\ flashcards' = deck.flashcards
           /\ file_id' = deck.file_id
           /\ text_content' = deck.text_content
           /\ before' = [name |-> deck.name, flashcards |-> deck.flashcards,
                         adaptive_update |-> deck.adaptive_update]
           /\ flashcard_decks' =
                 [flashcard_decks EXCEPT ![DeckIndex(selected_deck)] =
                                            WithSession(deck, made)]
           /\ IF deck.file_id # NoFile \/ deck.text_content \notin {NoText, ""}
                 THEN pc' = "web_analyze" /\ err' = "none"
                 ELSE pc' = "idle" /\ err' = "File not found"
    /\ gaps' = NoGaps
    /\ adaptive_result' = NoUpdate
    /\ calls' = NoCalls
    /\ UNCHANGED <<args, i, is_acceptable, returned, exported, files, history,
                   selected_deck, deck_name, recorder, page, previous, judging>>

\* "1. Analyze gaps": analyze_knowledge_gaps(session, ...), and the gaps
\* are stored in the deck.
WebAnalyzeGaps ==
    /\ prog = "web" /\ pc = "web_analyze"
    /\ UNCHANGED <<args, file_id, text_content, flashcards, i, is_acceptable,
                   session, adaptive_result, returned, exported, files,
                   history, selected_deck, deck_name, progress>>
    /\ \/ /\ FormatFails(session)
          /\ Raise("IndexError")
          /\ UNCHANGED <<gaps, calls, flashcard_decks>>
       \/ /\ ~FormatFails(session)
          /\ calls' = Called("analyze")
          /\ \/ /\ Raise("analyze")
                /\ UNCHANGED <<gaps, flashcard_decks>>
             \/ /\ \E reply \in AnalysisReplies(session.flashcards) :
                      /\ gaps' = reply
                      /\ flashcard_decks' =
                            [flashcard_decks EXCEPT
                               ![DeckIndex(selected_deck)] =
                                   WithGaps(CurrentDeck, reply)]
                /\ pc' = "web_adapt"
                /\ UNCHANGED err

\* "2. Generate adaptive deck": adaptive_update_flashcards(original, ...)
WebAdaptiveUpdate ==
    /\ prog = "web" /\ pc = "web_adapt"
    /\ AdaptiveUpdateFlashcards(flashcards, TRUE, "web_commit")
    /\ UNCHANGED <<args, file_id, text_content, flashcards, i, is_acceptable,
                   session, gaps, returned, exported, files, history, web,
                   progress>>

\* The update and its final set are stored in the deck, the study state is
\* reset, st.rerun().
WebCommitUpdate ==
    /\ prog = "web" /\ pc = "web_commit"
    /\ flashcard_decks' =
          [flashcard_decks EXCEPT ![DeckIndex(selected_deck)] =
                                     WithUpdate(CurrentDeck, adaptive_result)]
    /\ ResetStudySession
    /\ pc' = "idle"
    /\ UNCHANGED <<args, file_id, text_content, flashcards, i, is_acceptable,
                   study, err, returned, calls, exported, files, history,
                   selected_deck, deck_name, idx, shown, before, previous, judging>>

\* The source a stored deck has: the handle of its PDF or the text read.
StoredDeck(n, size, pdf) ==
    NewDeck(DefaultDeckName(n - 1), CardSet(size),
            IF pdf THEN n ELSE NoFile, IF pdf THEN NoText ELSE "text")

\* The page after the generate handler has stored one deck or MaxDecks
\* decks: no study has begun.
InitStudy ==
    /\ prog = "web"
    /\ pc = "idle"
    /\ file_path = [exists |-> TRUE, suffix |-> ".pdf"]
    /\ max_iterations = WebMaxIterations
    /\ keep_file = FALSE
    /\ enable_study_session = FALSE
    /\ InitLocals
    /\ \E count \in 1..MaxDecks :
          \E sizes \in [1..count -> 0..MaxStudied],
             pdfs \in [1..count -> BOOLEAN] :
                flashcard_decks =
                    [n \in 1..count |-> StoredDeck(n, sizes[n], pdfs[n])]
    /\ selected_deck \in DeckNames
    /\ deck_name = "None"

NextStudy ==
    \/ WebSelectDeck
    \/ WebShowAnswer
    \/ WebRate
    \/ WebRestart
    \/ WebSaveSession
    \/ WebAnalyzeGaps
    \/ WebAdaptiveUpdate
    \/ WebCommitUpdate

SpecStudy == InitStudy /\ [][NextStudy]_vars

\* The study page together with the sidebar's "Reset Session".
NextPage == NextStudy \/ WebResetSession

SpecPage == InitStudy /\ [][NextPage]_vars

(* ------------- adaptive_update_flashcards called directly -------------- *)

\* The ratings of a session over `cards`: any list of at most n ratings whose
\* index is that of a card shown (duplicates and subsets included).
RatingsOver(cards, n) ==
    UNION {[1..len -> [flashcard_index : 0..(Len(cards) - 1),
                       difficulty : SessionDifficulties]] : len \in 0..n}

\* adaptive_update_flashcards(original, session, gaps, file_id=...) of
\* study_session.py on an arbitrary original set, session and gap report.
InitLib ==
    /\ prog = "lib"
    /\ pc = "adapt"
    /\ file_path = [exists |-> TRUE, suffix |-> ".pdf"]
    /\ max_iterations = 0
    /\ keep_file = FALSE
    /\ enable_study_session = FALSE
    /\ file_id = 1
    /\ text_content = NoText
    /\ \E n \in 0..MaxOriginal : flashcards = CardSet(n)
    /\ \E n \in 0..MaxOriginal :
          \E r \in RatingsOver(CardSet(n), MaxRatings) :
             session = [flashcards |-> CardSet(n), ratings |-> r,
                        timestamp |-> "now"]
    /\ gaps \in GapsReplies
    /\ i = 0
    /\ is_acceptable = FALSE
    /\ adaptive_result = NoUpdate
    /\ err = "none"
    /\ returned = <<>>
    /\ calls = NoCalls
    /\ exported = <<>>
    /\ remote_files = {1}
    /\ release_calls = [h \in Handles |-> 0]
    /\ next_handle = 2
    /\ last_revised = NoJudged
    /\ judged = NoJudged
    /\ flashcard_decks = <<>>
    /\ selected_deck = "None"
    /\ deck_name = "None"
    /\ idx = 0
    /\ ratings = <<>>
    /\ shown = <<>>
    /\ current_flashcard_index = 0
    /\ show_answer = FALSE
    /\ before = NoBefore
    /\ previous = NoPrevious
    /\ evaluation = NoEvaluation
    /\ removed_cards_text = <<>>

\* The call, from its first statement to its return or its exception.
LibAdaptiveUpdate ==
    /\ prog = "lib" /\ pc = "adapt"
    /\ AdaptiveUpdateFlashcards(flashcards, TRUE, "done")
    /\ UNCHANGED <<progress, args, file_id, text_content, flashcards, i, is_acceptable,
                   session, gaps, returned, exported, files, history, web>>

NextLib == LibAdaptiveUpdate

SpecAdapt == InitLib /\ [][NextLib]_vars

\* The part of final_flashcards before the new cards.
KeptPrefix(update) ==
    SubSeq(update.final_flashcards, 1,
           Len(update.final_flashcards) - Len(update.cards_added))

\* A second call on the same original set and the same session, with
\* whatever gaps another analysis returns.
LibRerun ==
    /\ prog = "lib" /\ pc = "done" /\ err = "none"
    /\ previous = NoPrevious
    /\ previous' = [cards_removed |-> adaptive_result.cards_removed,
                    kept |-> KeptPrefix(adaptive_result)]
    /\ gaps' \in AnalysisReplies(session.flashcards)
    /\ adaptive_result' = NoUpdate
    /\ calls' = NoCalls
    /\ pc' = "adapt"
    /\ UNCHANGED <<args, file_id, text_content, flashcards, i, is_acceptable,
                   session, err, returned, exported, files, history, web,
                   recorder, page, before, judging>>

NextRerun == LibAdaptiveUpdate \/ LibRerun

SpecRerun == InitLib /\ [][NextRerun]_vars

(* ------- generate_flashcards, generate_gap_filling_cards called -------- *)

\* The functions of openai_client.py that take file_id and text_content.
SourceFunctions == {"generate_flashcards", "generate_gap_filling_cards"}

\* A call of one of them with any combination of file_id and text_content
\* (and, for the gap cards, any gaps).
InitCalls ==
    /\ prog \in SourceFunctions
    /\ pc = "call"
    /\ file_path = [exists |-> TRUE, suffix |-> ".pdf"]
    /\ max_iterations = 0
    /\ keep_file = FALSE
    /\ enable_study_session = FALSE
    /\ InitLocals
    /\ flashcard_decks = <<>>
    /\ selected_deck = "None"
    /\ deck_name = "None"

\* The call is entered with its arguments: file_id None or a handle,
\* text_content None or a text.
EnterCall ==
    /\ pc = "call"
    /\ pc' = "entered"
    /\ \E fid \in {NoFile, 1}, text \in {NoText, "text"} :
          /\ file_id' = fid
          /\ text_content' = text
          /\ remote_files' = IF fid = NoFile THEN {} ELSE {fid}
          /\ next_handle' = IF fid = NoFile THEN 1 ELSE fid + 1
    /\ IF prog = "generate_gap_filling_cards"
         THEN gaps' \in AnalysisReplies(CardSet(MaxOriginal))
         ELSE UNCHANGED gaps
    /\ UNCHANGED <<args, flashcards, i, is_acceptable, session,
                   adaptive_result, err, returned, calls, exported,
                   release_calls, history, web, progress>>

\* generate_flashcards(file_id=..., text_content=...)
CallGenerateFlashcards ==
    /\ prog = "generate_flashcards" /\ pc = "entered"
    /\ UNCHANGED <<args, file_id, text_content, flashcards, i, is_acceptable,
                   study, exported, files, history, web, progress>>
    /\ \/ /\ SourceInvalid(file_id, text_content)
          /\ Raise("ValueError")
          /\ UNCHANGED <<calls, returned>>
       \/ /\ ~SourceInvalid(file_id, text_content)
          /\ calls' = Called("generate")
          /\ \/ /\ Raise("generate")
                /\ UNCHANGED returned
             \/ /\ \E reply \in OracleSets : returned' = reply
                /\ pc' = "done"
                /\ UNCHANGED err

\* generate_gap_filling_cards(gaps, file_id=..., text_content=...)
CallGenerateGapFillingCards ==
    /\ prog = "generate_gap_filling_cards" /\ pc = "entered"
    /\ UNCHANGED <<args, file_id, text_content, flashcards, i, is_acceptable,
                   study, exported, files, history, web, progress>>
    /\ \/ /\ NoGapsIdentified(gaps)
          /\ returned' = <<>>
          /\ pc' = "done"
          /\ UNCHANGED <<calls, err>>
       \/ /\ ~NoGapsIdentified(gaps)
          /\ SourceInvalid(file_id, text_content)
          /\ Raise("ValueError")
          /\ UNCHANGED <<calls, returned>>
       \/ /\ ~NoGapsIdentified(gaps)
          /\ ~SourceInvalid(file_id, text_content)
          /\ calls' = Called("gapcards")
          /\ \/ /\ Raise("gapcards")
                /\ UNCHANGED returned
             \/ /\ \E reply \in OracleNewCards : returned' = reply
                /\ pc' = "done"
                /\ UNCHANGED err

NextCalls ==
    \/ EnterCall
    \/ CallGenerateFlashcards
    \/ CallGenerateGapFillingCards

SpecCalls == InitCalls /\ [][NextCalls]_vars

(* ------------------- prepare_input called directly -------------------- *)

\* The paths handed to prepare_input: a file that exists or not, of any
\* suffix.
PreparedPaths ==
    [exists : BOOLEAN, suffix : {".pdf", ".txt", ".text", ".doc"}]

InitPrepare ==
    /\ prog = "prepare_input"
    /\ pc = "prepare"
    /\ file_path \in PreparedPaths
    /\ max_iterations = 0
    /\ keep_file = FALSE
    /\ enable_study_session = FALSE
    /\ InitLocals
    /\ flashcard_decks = <<>>
    /\ selected_deck = "None"
    /\ deck_name = "None"

\* prepare_input(file_path), from its first statement to its return or its
\* exception.
CallPrepareInput ==
    /\ prog = "prepare_input" /\ pc = "prepare"
    /\ PrepareInput("done")
    /\ UNCHANGED <<progress, args, flashcards, i, is_acceptable, study, returned,
                   exported, release_calls, history, web>>

\* The source file as the command line and as prepare_input get it.
InitInput == InitCLI \/ InitPrepare

NextInput == NextCLI \/ CallPrepareInput

SpecInput == InitInput /\ [][NextInput]_vars

(* ------------------- evaluator.py: evaluate_flashcard_set --------------- *)

\* A float, kept exact: num / den.
Frac(n, d) == [num |-> n, den |-> d]

\* 0.0
Zero == Frac(0, 1)

FracEq(x, y) == x.num * y.den = y.num * x.den

FracAdd(x, y) == Frac(x.num * y.den + y.num * x.den, x.den * y.den)

\* An Optional value: None is <<>>, a value v is <<v>>.
None == <<>>
Some(v) == <<v>>

\* sum(scores) of a list of ints.
RECURSIVE SumOf(_)
SumOf(scores) ==
    IF scores = <<>> THEN 0 ELSE Head(scores) + SumOf(Tail(scores))

\* "sum(scores) / len(scores) if scores else 0.0"
Mean(scores) ==
    IF scores # <<>> THEN Frac(SumOf(scores), Len(scores)) ELSE Zero

\* The fields FlashcardEvaluation and DeckEvaluation declare.
FlashcardEvaluationFields ==
    {"atomicity", "clarity", "long_term_retention_potential", "feedback"}

DeckEvaluationFields ==
    {"flashcard_evaluations", "average_scores", "overall_deck_score"}

\* criteria = ["atomicity", "clarity", "learning_value", "accuracy"]
criteria == <<"atomicity", "clarity", "learning_value", "accuracy">>

\* The scores the judge gives a card (1-10).
JudgeScores == {3, 8}

\* FlashcardEvaluation objects as model_validate_json builds them: the
\* declared fields and no other.
FlashcardEvaluations ==
    [atomicity : JudgeScores, clarity : JudgeScores,
     long_term_retention_potential : JudgeScores, feedback : {"feedback"}]

\* The aggregates a reply may carry: the schema sent to the judge holds
\* average_scores and overall_deck_score as optional fields.
SuppliedAverages ==
    {None, Some([c \in {criteria[n] : n \in 1..Len(criteria)} |-> Frac(9, 1)])}

SuppliedOverall == {None, Some(Frac(9, 1))}

\* DeckEvaluation.model_validate_json(...): the replies of the judge.
DeckReplies ==
    [flashcard_evaluations :
         UNION {[1..len -> FlashcardEvaluations] : len \in 0..MaxEvaluated},
     average_scores : SuppliedAverages,
     overall_deck_score : SuppliedOverall]

\* getattr(obj, name) raises AttributeError, and obj.name = value raises
\* ValueError, for a name the pydantic model does not declare.
Declares(fields, name) == name \in fields

\* The number of criteria the loop averages before getattr fails (all of
\* them when every criterion is a declared field).
RECURSIVE Averaged(_)
Averaged(n) ==
    IF n < Len(criteria) /\ Declares(FlashcardEvaluationFields, criteria[n + 1])
      THEN Averaged(n + 1) ELSE n

\* scores = [getattr(eval, criterion) for eval in flashcard_evaluations]
ScoresOf(evals, criterion) == [n \in 1..Len(evals) |-> evals[n][criterion]]

\* evaluation.average_scores after the first n criteria.
AverageScores(evals, n) ==
    [c \in {criteria[k] : k \in 1..n} |-> Mean(ScoresOf(evals, c))]

\* sum(average_scores.values()) over the first n criteria.
RECURSIVE SumOfAverages(_, _)
SumOfAverages(averages, n) ==
    IF n = 0 THEN Zero
    ELSE FracAdd(SumOfAverages(averages, n - 1), averages[criteria[n]])

\* "sum(average_scores.values()) / len(average_scores) if average_scores
\* else 0.0"
OverallOf(averages, n) ==
    IF n = 0 THEN Zero
    ELSE LET total == SumOfAverages(averages, n)
         IN  Frac(total.num, total.den * n)

\* Mutant: the score the reply carried is left in place.
SuppliedDeckScore(supplied) == supplied

\* "evaluation.overall_deck_score = 0.0" of the branch without evaluations.
EmptyDeckScore(supplied) == Some(Zero)

\* "if evaluation.average_scores is None: evaluation.average_scores = {}"
EmptyDeckAverages(supplied) == IF supplied = None THEN Some(<<>>) ELSE supplied

\* The aggregation of evaluate_flashcard_set on the validated reply: the
\* object as the function leaves it, and the exception it raises if any.
Aggregate(reply) ==
    LET evals == reply.flashcard_evaluations
        n == Averaged(0)
    IN  IF evals # <<>>
          THEN IF n < Len(criteria)
                 THEN [evaluation |->
                           [reply EXCEPT
                              !.average_scores = Some(AverageScores(evals, n))],
                       raised |-> "AttributeError"]
                 ELSE [evaluation |->
                           [reply EXCEPT
                              !.average_scores = Some(AverageScores(evals, n)),
                              !.overall_deck_score =
                                  Some(OverallOf(AverageScores(evals, n), n))],
                       raised |-> "none"]
          ELSE [evaluation |->
                    [reply EXCEPT
                       !.average_scores = EmptyDeckAverages(@),
                       !.overall_deck_score = EmptyDeckScore(@)],
                raised |-> "none"]

\* evaluate_flashcard_set(flashcard_set, file_id, text_content): the request
\* to the judge, the validation of the reply, the aggregation.
EvaluateFlashcardSet ==
    /\ prog = "evaluate_flashcard_set" /\ pc = "evaluate"
    /\ calls' = Called("evaluate")
    /\ \/ /\ Raise("evaluate")
          /\ UNCHANGED evaluation
       \/ \E reply \in DeckReplies :
             /\ evaluation' = Aggregate(reply).evaluation
             /\ IF Aggregate(reply).raised = "none"
                  THEN pc' = "done" /\ UNCHANGED err
                  ELSE Raise(Aggregate(reply).raised)
    /\ UNCHANGED <<args, file_id, text_content, flashcards, i, is_acceptable,
                   study, returned, exported, files, history, web, recorder,
                   page, before, previous, removed_cards_text>>

\* A second evaluation of the same set; the judge replies what it likes.
EvaluateAgain ==
    /\ prog = "evaluate_flashcard_set" /\ pc = "done" /\ err = "none"
    /\ previous = NoPrevious
    /\ previous' = evaluation
    /\ evaluation' = NoEvaluation
    /\ pc' = "evaluate"
    /\ UNCHANGED <<args, file_id, text_content, flashcards, i, is_acceptable,
                   study, err, returned, calls, exported, files, history, web,
                   recorder, page, before, removed_cards_text>>

\* evaluate_flashcard_set on any card set, with a file, a text or neither.
InitEvaluate ==
    /\ prog = "evaluate_flashcard_set"
    /\ pc = "evaluate"
    /\ file_path = [exists |-> TRUE, suffix |-> ".pdf"]
    /\ max_iterations = 0
    /\ keep_file = FALSE
    /\ enable_study_session = FALSE
    /\ file_id \in {NoFile, 1}
    /\ text_content \in {NoText, "text"}
    /\ flashcards \in OracleSets
    /\ i = 0
    /\ is_acceptable = FALSE
    /\ session = NoSession
    /\ gaps = NoGaps
    /\ adaptive_result = NoUpdate
    /\ err = "none"
    /\ returned = <<>>
    /\ calls = NoCalls
    /\ exported = <<>>
    /\ remote_files = IF file_id = NoFile THEN {} ELSE {file_id}
    /\ release_calls = [h \in Handles |-> 0]
    /\ next_handle = 2
    /\ last_revised = NoJudged
    /\ judged = NoJudged
    /\ flashcard_decks = <<>>
    /\ selected_deck = "None"
    /\ deck_name = "None"
    /\ idx = 0
    /\ ratings = <<>>
    /\ shown = <<>>
    /\ current_flashcard_index = 0
    /\ show_answer = FALSE
    /\ before = NoBefore
    /\ previous = NoPrevious
    /\ evaluation = NoEvaluation
    /\ removed_cards_text = <<>>

NextEvaluate == EvaluateFlashcardSet \/ EvaluateAgain

SpecEvaluate == InitEvaluate /\ [][NextEvaluate]_vars

(* -------------------- evaluator.py: evaluate_adaptation ----------------- *)

\* The fields GapCardEvaluation, RemovalEvaluation and AdaptationEvaluation
\* declare.
GapCardEvaluationFields ==
    {"gap_description", "addressing_cards", "gap_coverage_score",
     "relevance_feedback"}

RemovalEvaluationFields ==
    {"removed_card_index", "removed_card_question", "user_rating",
     "removal_appropriateness", "removal_feedback"}

AdaptationEvaluationFields ==
    {"gap_evaluations", "removal_evaluations", "average_gap_coverage",
     "average_removal_appropriateness", "overall_adaptation_effectiveness"}

\* The per-gap and per-removal evaluations of a reply: none, one, or two
\* with different scores.
GapEvaluation(score) ==
    [gap_description |-> "gap", addressing_cards |-> <<0>>,
     gap_coverage_score |-> score, relevance_feedback |-> "feedback"]

GapEvaluationLists ==
    {<<>>, <<GapEvaluation(3)>>, <<GapEvaluation(3), GapEvaluation(8)>>}

RemovalEvaluation(score) ==
    [removed_card_index |-> 0, removed_card_question |-> 1, user_rating |-> 1,
     removal_appropriateness |-> score, removal_feedback |-> "feedback"]

RemovalEvaluationLists ==
    {<<>>, <<RemovalEvaluation(8)>>,
     <<RemovalEvaluation(8), RemovalEvaluation(3)>>}

\* AdaptationEvaluation.model_validate_json(...): the replies of the judge.
AdaptationReplies ==
    [gap_evaluations : GapEvaluationLists,
     removal_evaluations : RemovalEvaluationLists,
     average_gap_coverage : {Frac(9, 1)},
     average_removal_appropriateness : {Frac(9, 1)},
     overall_adaptation_effectiveness : {9}]

\* The rating written next to a removed card: the difficulty of the first
\* rating whose index is below len(original) and whose card has the removed
\* card's question text; None when there is none.
RECURSIVE RatingOf(_, _, _, _)
RatingOf(original, rated, removed_card, n) ==
    IF n > Len(rated) THEN None
    ELSE IF /\ rated[n].flashcard_index < Len(original)
            /\ PyIndex(original, rated[n].flashcard_index).question
                   = removed_card.question
           THEN Some(rated[n].difficulty)
           ELSE RatingOf(original, rated, removed_card, n + 1)

\* "for removed_card in adapted_update.cards_removed: ..." : one rating per
\* removed card.
RatedRemoved(original, rated, removed) ==
    [m \in DOMAIN removed |-> RatingOf(original, rated, removed[m], 1)]

\* obj.name = value: the object with the attribute set.
SetAttr(obj, name, value) ==
    [f \in DOMAIN obj \cup {name} |-> IF f = name THEN value ELSE obj[f]]

\* "0.6 * average_gap_personalization + 0.4 * average_removal_personalization"
\* when either average is positive, else 0.0.
OverallPersonalization(gap, removal) ==
    IF gap.num > 0 \/ removal.num > 0
      THEN Frac(6 * gap.num * removal.den + 4 * removal.num * gap.den,
                10 * gap.den * removal.den)
      ELSE Zero

\* "sum(scores) / len(scores) if scores else 0.0" of the branch taken for a
\* non-empty list, and 0.0 of the other.
AveragePersonalization(evals) ==
    IF evals # <<>> THEN Mean(ScoresOf(evals, "personalization_score"))
    ELSE Zero

\* The exception the aggregation of evaluate_adaptation raises on a reply:
\* it reads personalization_score of every per-gap and per-removal
\* evaluation and assigns three attributes of the AdaptationEvaluation.
AdaptationRaises(reply) ==
    IF /\ reply.gap_evaluations # <<>>
       /\ ~Declares(GapCardEvaluationFields, "personalization_score")
      THEN "AttributeError"
    ELSE IF ~Declares(AdaptationEvaluationFields, "average_gap_personalization")
      THEN "ValueError"
    ELSE IF /\ reply.removal_evaluations # <<>>
            /\ ~Declares(RemovalEvaluationFields, "personalization_score")
      THEN "AttributeError"
    ELSE IF ~Declares(AdaptationEvaluationFields,
                      "average_removal_personalization")
      THEN "ValueError"
    ELSE IF ~Declares(AdaptationEvaluationFields, "overall_personalization")
      THEN "ValueError"
    ELSE "none"

\* The evaluation when nothing is raised.
Personalized(reply) ==
    LET gap == AveragePersonalization(reply.gap_evaluations)
        removal == AveragePersonalization(reply.removal_evaluations)
    IN  SetAttr(SetAttr(SetAttr(reply, "average_gap_personalization", gap),
                        "average_removal_personalization", removal),
                "overall_personalization",
                OverallPersonalization(gap, removal))

\* evaluate_adaptation(original_flashcards, adapted_update, knowledge_gaps,
\* study_session, ...) on the update adaptive_update_flashcards returned: the
\* removed cards with their ratings, the request to the judge, the
\* validation of the reply, the aggregation.
EvaluateAdaptation ==
    /\ prog = "lib" /\ pc = "done" /\ err = "none"
    /\ calls["evaluate"] = 0
    /\ removed_cards_text' =
           RatedRemoved(flashcards, session.ratings,
                        adaptive_result.cards_removed)
    /\ calls' = Called("evaluate")
    /\ \/ /\ Raise("evaluate")
          /\ UNCHANGED evaluation
       \/ \E reply \in AdaptationReplies :
             IF AdaptationRaises(reply) = "none"
               THEN /\ evaluation' = Personalized(reply)
                    /\ pc' = "evaluated"
                    /\ UNCHANGED err
               ELSE /\ evaluation' = reply
                    /\ Raise(AdaptationRaises(reply))
    /\ UNCHANGED <<args, file_id, text_content, flashcards, i, is_acceptable,
                   study, returned, exported, files, history, web, recorder,
                   page, before, previous>>

NextEvaluateAdaptation == LibAdaptiveUpdate \/ EvaluateAdaptation

SpecEvaluateAdaptation == InitLib /\ [][NextEvaluateAdaptation]_vars

(* --------------------------- both programs ----------------------------- *)

Init == InitCLI \/ InitWeb

Next == NextCLI \/ WebGenerateClick \/ WebPrepareInput \/ WebStoreDeck
          \/ WebResetSession

Spec == Init /\ [][Next]_vars

(* ------------------- claims: the critique-revise loop ------------------- *)

InLoop == pc \in {"loop", "revise"}

\* What is left of the loop's budget: two steps (critique, revise) for each
\* of the max_iterations - i iterations not yet completed, less the critique
\* of the iteration under way.
LoopBudget == 2 * (max_iterations - i) - (IF pc = "revise" THEN 1 ELSE 0)

\* C1: for max_iterations = k >= 1 and any critique verdicts, a run of the
\* critique-revise loop (create_flashcards and the web generate handler)
\* makes at most k revise calls and at most k + 1 critique calls, and it
\* terminates: every step that stays in the loop uses up part of a budget
\* that is finite and never negative.
C1_LoopBounded ==
    /\ [](max_iterations >= 1 =>
            /\ calls["revise"] <= max_iterations
            /\ calls["critique"] <= max_iterations + 1)
    /\ [][InLoop /\ InLoop' =>
            LoopBudget' < LoopBudget /\ LoopBudget' >= 0]_vars

\* A 2-iteration CLI run whose critiques all rejected: 2 critiques, 2 revises.
C1_Witness ==
    /\ prog = "cli" /\ pc = "after_loop" /\ max_iterations = 2
    /\ calls["critique"] = 2 /\ calls["revise"] = 2

\* An accepting critique has returned in this run.
Accepted == judged # NoJudged

\* C2: when the first critique to return is_acceptable = true is the j-th
\* (1 <= j <= max_iterations), the loop stops there: j critique calls and
\* j - 1 revise calls have been made and none is made later, and the final
\* card set (the one exported directly or shown in the study session) is the
\* set that critique judged.
C2_StopsOnAcceptance ==
    (prog = "cli" /\ Accepted) =>
        /\ ~InLoop
        /\ is_acceptable
        /\ calls["critique"] >= 1 /\ calls["critique"] <= max_iterations
        /\ calls["revise"] = calls["critique"] - 1
        /\ flashcards = judged
        /\ (exported # <<>> /\ adaptive_result = NoUpdate) => exported[1] = judged
        /\ session # NoSession => session.flashcards = judged

\* Scenario A, at the end of the loop: rejected, revised to 4 cards, accepted.
C2_Witness ==
    /\ prog = "cli" /\ pc = "after_loop" /\ Accepted
    /\ calls["critique"] = 2 /\ calls["revise"] = 1
    /\ Len(flashcards) = 4 /\ last_revised = flashcards

\* Every critique of the budget has returned and rejected, and the loop is
\* over (without a failure of the oracle in it).
AllRejected ==
    /\ max_iterations >= 1
    /\ calls["critique"] = max_iterations
    /\ ~Accepted
    /\ pc # "revise"
    /\ err \notin {"critique", "revise"}

\* C3: when every critique within the budget rejects, the loop ends normally
\* after exactly max_iterations revise calls, and the card set passed on (to
\* the export, to the study session, to the stored deck of the web UI) is
\* what the last revise call returned.
C3_ExhaustionIsNormal ==
    AllRejected =>
        /\ calls["revise"] = max_iterations
        /\ i = max_iterations
        /\ flashcards = last_revised
        /\ pc \in {"loop", "after_loop"} => err = "none"
        /\ (exported # <<>> /\ adaptive_result = NoUpdate)
              => exported[1] = last_revised
        /\ session # NoSession => session.flashcards = last_revised
        /\ (prog = "web" /\ pc = "idle" /\ err = "none") =>
              /\ flashcard_decks # <<>>
              /\ flashcard_decks[Len(flashcard_decks)].name = deck_name
              /\ flashcard_decks[Len(flashcard_decks)].flashcards = last_revised

\* A CLI run whose two critiques rejected exports the second revision, which
\* differs from the first.
C3_Witness ==
    /\ prog = "cli" /\ pc = "done" /\ err = "none" /\ AllRejected
    /\ max_iterations = 2
    /\ exported = <<last_revised>> /\ Len(last_revised) = 3

(* ---------------- claims: the handle and the failures ------------------ *)

\* C4: in a create_flashcards run that acquired a handle with keep_file
\* false, cleanup_file is called exactly once for it, at the very end (no
\* oracle call and no export follows it), whichever way the run ends; with
\* keep_file true it is never called; when the upload fails there is no
\* release. A run ends only at "done".
C4_ReleasedOnce ==
    /\ [](/\ \A h \in Handles :
               /\ release_calls[h] <= 1
               /\ release_calls[h] = 1 => (h = file_id /\ pc = "done")
          /\ pc = "done" =>
               /\ (file_id # NoFile /\ ~keep_file) => release_calls[file_id] = 1
               /\ keep_file => calls["release"] = 0
               /\ file_id = NoFile => calls["release"] = 0
          /\ pc # "done" => ENABLED NextCLI)
    /\ [][calls["release"] >= 1 => UNCHANGED calls]_vars

\* A run that failed in the middle of the loop and released its handle.
C4_Witness ==
    /\ pc = "done" /\ err = "revise" /\ ~keep_file
    /\ file_id # NoFile /\ release_calls[file_id] = 1

\* An oracle call of this run has failed.
OracleFailed == err \in OracleOps

\* C6: once an oracle call of a create_flashcards run has failed, the run
\* makes no further oracle call (so no retry), calls neither export, and
\* returns no card set: it ends raising that error.
C6_FailureAborts ==
    /\ [](OracleFailed =>
            /\ calls["export_pkg"] = 0 /\ calls["export_txt"] = 0
            /\ exported = <<>>
            /\ returned = <<>>
            /\ pc \in {"finally", "done"})
    /\ [][OracleFailed =>
            /\ err' = err
            /\ \A op \in OracleOps \cup {"export_pkg", "export_txt"} :
                  calls'[op] = calls[op]]_vars

\* A study-session run whose gap-card generation failed.
C6_Witness ==
    /\ pc = "done" /\ err = "gapcards"
    /\ calls["analyze"] = 1 /\ calls["gapcards"] = 1

\* The delete of this run's handle was attempted and failed.
ReleaseFailed ==
    /\ file_id # NoFile /\ release_calls[file_id] >= 1
    /\ file_id \in remote_files

\* C7: a failing release is swallowed by cleanup_file: the finally block
\* leaves the outcome of the run as it found it (the card set returned, or
\* the error raised).
C7_CleanupSwallowed ==
    /\ [][pc = "finally" => (err' = err /\ returned' = returned)]_vars
    /\ [](pc = "done" /\ ReleaseFailed /\ err = "none" =>
            returned = IF adaptive_result = NoUpdate THEN flashcards
                       ELSE adaptive_result.final_flashcards)

\* A successful run returns its cards although the delete failed.
C7_Witness ==
    /\ pc = "done" /\ ReleaseFailed /\ err = "none"
    /\ returned = flashcards /\ Len(returned) = 2

\* C5: when generate, critique or revise fails in the web generate handler
\* after a PDF was uploaded, the run aborts, no deck is stored and the
\* uploaded file is released.
C5_WebFailureReleases ==
    (/\ prog = "web" /\ pc = "idle"
     /\ err \in {"generate", "critique", "revise"}
     /\ file_id # NoFile)
    => /\ \A d \in 1..Len(flashcard_decks) :
             flashcard_decks[d].file_id # file_id
       /\ release_calls[file_id] >= 1
       /\ file_id \notin remote_files

(* --------------------- claims: the adaptive update --------------------- *)

\* adaptive_update_flashcards has returned an AdaptiveUpdate.
UpdateReturned == prog = "lib" /\ pc = "done" /\ err = "none"

\* The distinct indices the session rates with difficulty 1.
RatedMastered ==
    {m \in 0..(Len(session.flashcards) - 1) :
        \E n \in 1..Len(session.ratings) :
            /\ session.ratings[n].flashcard_index = m
            /\ session.ratings[n].difficulty = 1}

\* C8: every AdaptiveUpdate returned, for any original set and any session
\* with in-range rating indices (duplicates and partial sessions included),
\* has len(final_flashcards) = original_count - len(cards_removed)
\* + len(cards_added).
C8_UpdateCount ==
    UpdateReturned =>
        Len(adaptive_result.final_flashcards) =
            adaptive_result.original_count
            - LenRemoved(adaptive_result.cards_removed)
            + Len(adaptive_result.cards_added)

\* A partial session that rates card 0 twice as mastered, over 3 cards, with
\* 2 new cards.
C8_Witness ==
    /\ UpdateReturned
    /\ Len(flashcards) = 3
    /\ session.ratings = << [flashcard_index |-> 0, difficulty |-> 1],
                            [flashcard_index |-> 0, difficulty |-> 1] >>
    /\ Len(adaptive_result.cards_added) = 2
    /\ Len(adaptive_result.final_flashcards) = 4

\* The 1-based positions of the original cards that are not mastered.
KeptPositions == {q \in 1..Len(flashcards) : (q - 1) \notin RatedMastered}

\* The j-th of them, in increasing order.
KeptPosition(j) ==
    CHOOSE q \in KeptPositions :
        Cardinality({r \in KeptPositions : r <= q}) = j

\* C9: final_flashcards of a returned AdaptiveUpdate is the original cards
\* whose index is not mastered, in their original order, followed by the new
\* cards in the order the oracle returned them.
C9_KeptThenNew ==
    UpdateReturned =>
        LET final == adaptive_result.final_flashcards
            added == adaptive_result.cards_added
            nkept == Cardinality(KeptPositions)
        IN  /\ Len(final) = nkept + Len(added)
            /\ \A j \in 1..nkept : final[j] = flashcards[KeptPosition(j)]
            /\ \A j \in 1..Len(added) : final[nkept + j] = added[j]

\* The middle card of three is mastered and two cards are added.
C9_Witness ==
    /\ UpdateReturned
    /\ RatedMastered = {1}
    /\ adaptive_result.final_flashcards =
          <<CardAt(1), CardAt(3)>> \o NewCards(2)

\* C10: cards_removed of a returned AdaptiveUpdate has exactly one entry for
\* each distinct index rated with difficulty 1, the original card at that
\* index, and nothing else.
C10_RemovedAreMastered ==
    UpdateReturned =>
        LET removed == adaptive_result.cards_removed
        IN  /\ DOMAIN removed = RatedMastered
            /\ LenRemoved(removed) = Cardinality(RatedMastered)
            /\ \A m \in RatedMastered : removed[m] = flashcards[m + 1]

\* Scenario B: ratings [(0,1), (1,1), (2,3)] over 3 cards, one critical gap,
\* no weak area, 2 new cards: cards 0 and 1 removed, 1 kept, 3 final cards.
C10_Witness ==
    /\ UpdateReturned
    /\ flashcards = CardSet(3)
    /\ session.ratings = << [flashcard_index |-> 0, difficulty |-> 1],
                            [flashcard_index |-> 1, difficulty |-> 1],
                            [flashcard_index |-> 2, difficulty |-> 3] >>
    /\ gaps.critical_gaps = <<"gap">> /\ gaps.weak_areas = <<>>
    /\ DOMAIN adaptive_result.cards_removed = {0, 1}
    /\ adaptive_result.cards_removed[0] = CardAt(1)
    /\ adaptive_result.cards_removed[1] = CardAt(2)
    /\ adaptive_result.final_flashcards = <<CardAt(3)>> \o NewCards(2)

(* --------------- claims: what drives removal, and the gaps -------------- *)

\* The second of two calls on one original set and one session has returned.
SecondReturned == UpdateReturned /\ previous # NoPrevious

\* C11: cards_removed and the kept cards depend on the original set and the
\* ratings alone: a second call on the same original set and session, with
\* any other gaps (recommended_removals in or out of range included) and any
\* other new cards from the oracle, removes and keeps what the first did.
C11_RemovalIgnoresGaps ==
    SecondReturned =>
        /\ adaptive_result.cards_removed = previous.cards_removed
        /\ KeptPrefix(adaptive_result) = previous.kept

\* The second call got a recommendation to remove card 0, which the learner
\* did not master, and new cards; it kept card 0 as the first call did.
C11_Witness ==
    /\ SecondReturned
    /\ gaps.recommended_removals = <<0>>
    /\ 0 \notin RatedMastered
    /\ Len(adaptive_result.cards_added) = 2
    /\ previous.kept # <<>> /\ previous.kept[1] = CardAt(1)
    /\ DOMAIN previous.cards_removed = {1}

\* C12: with critical_gaps and weak_areas both empty an adaptive update calls
\* the gap-card oracle zero times, adds no card and its final set is the kept
\* cards; with one of the lists non-empty it calls the oracle exactly once.
C12_NoGapsNoCall ==
    LET nothing == gaps.critical_gaps = <<>> /\ gaps.weak_areas = <<>>
    IN  /\ calls["gapcards"] <= 1
        /\ UpdateReturned /\ nothing =>
              /\ calls["gapcards"] = 0
              /\ adaptive_result.cards_added = <<>>
              /\ adaptive_result.final_flashcards = KeptPrefix(adaptive_result)
              /\ Len(adaptive_result.final_flashcards)
                    = Cardinality(KeptPositions)
        /\ UpdateReturned /\ ~nothing => calls["gapcards"] = 1
        /\ prog = "lib" /\ err = "gapcards" =>
              ~nothing /\ calls["gapcards"] = 1

\* Scenario C: no gap of either kind, one of two cards mastered.
C12_Witness ==
    /\ UpdateReturned
    /\ gaps.critical_gaps = <<>> /\ gaps.weak_areas = <<>>
    /\ Len(flashcards) = 2 /\ RatedMastered = {0}
    /\ calls["gapcards"] = 0
    /\ adaptive_result.cards_added = <<>>
    /\ adaptive_result.final_flashcards = <<CardAt(2)>>

(* ---------------------- claims: the CLI recorder ------------------------ *)

\* conduct_study_session is between its first card and its return.
InRecorder == prog = "cli" /\ pc \in {"present", "rate"}

\* The indices 0 .. n-1 in order.
FirstIndices(n) == [j \in 1..n |-> j - 1]

\* C15: conduct_study_session presents the cards in original order, each
\* once, and returns a session with len(cards) ratings, the i-th with
\* flashcard_index i and a difficulty in 1..5; only a valid rating is
\* recorded and only a recorded rating moves on to the next card.
C15_RecorderRatesEveryCard ==
    /\ [](InRecorder =>
            /\ Len(ratings) = idx /\ idx <= Len(flashcards)
            /\ shown = FirstIndices(IF pc = "rate" THEN idx + 1 ELSE idx))
    /\ [](prog = "cli" /\ session # NoSession =>
            /\ session.flashcards = flashcards
            /\ shown = FirstIndices(Len(flashcards))
            /\ Len(session.ratings) = Len(flashcards)
            /\ \A j \in 1..Len(session.ratings) :
                  /\ session.ratings[j].flashcard_index = j - 1
                  /\ session.ratings[j].difficulty \in 1..5)
    /\ [][InRecorder /\ (idx' # idx \/ ratings' # ratings) =>
            /\ pc = "rate"
            /\ idx' = idx + 1
            /\ Len(ratings') = Len(ratings) + 1
            /\ SubSeq(ratings', 1, Len(ratings)) = ratings
            /\ ratings'[Len(ratings')].flashcard_index = idx
            /\ ratings'[Len(ratings')].difficulty \in 1..5]_vars

\* A session over three cards has been returned, rated 1, 3, 1.
C15_Witness ==
    /\ prog = "cli" /\ session # NoSession
    /\ Len(session.flashcards) = 3
    /\ session.ratings = << [flashcard_index |-> 0, difficulty |-> 1],
                            [flashcard_index |-> 1, difficulty |-> 3],
                            [flashcard_index |-> 2, difficulty |-> 1] >>
    /\ shown = <<0, 1, 2>>

(* ----------------------- claims: the study page ------------------------ *)

\* The save action stopped at the failure of the gap-card call.
GapCardsFailed == prog = "web" /\ err = "gapcards"

\* The deck the save action worked on.
SavedDeck == flashcard_decks[DeckIndex(before.name)]

\* C13: when the gap-card call fails inside adaptive_update_flashcards no
\* AdaptiveUpdate is returned, and the deck the web save action worked on
\* has the flashcards and the adaptive_update it had before the action.
C13_FailedUpdateCommitsNothing ==
    GapCardsFailed =>
        /\ adaptive_result = NoUpdate
        /\ before.name \in DeckNames
        /\ SavedDeck.flashcards = before.flashcards
        /\ SavedDeck.adaptive_update = before.adaptive_update

\* The save stored the session and the gaps, the gap-card call failed, and
\* the deck still has its two cards.
C13_Witness ==
    /\ GapCardsFailed /\ pc = "idle"
    /\ Len(SavedDeck.study_sessions) = 1
    /\ SavedDeck.knowledge_gaps # NoGaps
    /\ SavedDeck.flashcards = CardSet(2)
    /\ MasteredIndices(session.ratings) = {0}

\* Every rating of s is for a card of s.
IndicesInRange(s) ==
    \A n \in 1..Len(s.ratings) :
        /\ s.ratings[n].flashcard_index >= 0
        /\ s.ratings[n].flashcard_index < Len(s.flashcards)

\* C14: every StudySession the web page constructs and stores has all its
\* rating indices within the cards of the session.
C14_SessionIndicesInRange ==
    /\ IndicesInRange(session)
    /\ \A n \in 1..Len(flashcard_decks) :
          \A k \in 1..Len(flashcard_decks[n].study_sessions) :
              IndicesInRange(flashcard_decks[n].study_sessions[k])

\* C16: a session stored in a deck keeps its flashcards and its ratings: no
\* later action (rating, restart, save, analysis, adaptation that replaces
\* the deck's cards) changes a session already in study_sessions.
C16_StoredSessionsFrozen ==
    [][\A n \in 1..Len(flashcard_decks) :
          /\ Len(flashcard_decks') >= n
          /\ flashcard_decks'[n].name = flashcard_decks[n].name
          /\ Len(flashcard_decks'[n].study_sessions)
                >= Len(flashcard_decks[n].study_sessions)
          /\ \A k \in 1..Len(flashcard_decks[n].study_sessions) :
                flashcard_decks'[n].study_sessions[k]
                    = flashcard_decks[n].study_sessions[k]]_vars

\* The deck was adapted after its first session and a second session was
\* saved and reset: the first session still has the two cards and the two
\* ratings it was recorded with.
C16_Witness ==
    /\ prog = "web" /\ pc = "idle"
    /\ Len(flashcard_decks) = 1
    /\ Len(flashcard_decks[1].study_sessions) = 2
    /\ flashcard_decks[1].study_sessions[1].flashcards = CardSet(2)
    /\ Len(flashcard_decks[1].study_sessions[1].ratings) = 2
    /\ flashcard_decks[1].study_sessions[2].flashcards # CardSet(2)
    /\ flashcard_decks[1].flashcards # CardSet(2)
    /\ ratings = <<>>

(* ----------------------- claims: the source check ---------------------- *)

\* The call was given both a file_id and a text_content, or neither.
BothOrNeither ==
    \/ file_id # NoFile /\ text_content # NoText
    \/ file_id = NoFile /\ text_content = NoText

\* C17: generate_flashcards with both file_id and text_content, or with
\* neither, raises before any oracle request; with exactly one of them it
\* sends exactly one request.
C17_GenerateChecksSource ==
    prog = "generate_flashcards" =>
        /\ OracleCalls <= 1
        /\ pc = "done" /\ BothOrNeither =>
              err = "ValueError" /\ calls = NoCalls /\ returned = <<>>
        /\ pc = "done" /\ ~BothOrNeither =>
              calls["generate"] = 1 /\ OracleCalls = 1
              /\ err \in {"none", "generate"}

\* The call with both a handle and a text was refused unsent.
C17_Witness ==
    /\ prog = "generate_flashcards" /\ pc = "done"
    /\ file_id # NoFile /\ text_content # NoText
    /\ err = "ValueError" /\ calls = NoCalls

\* C18: generate_gap_filling_cards with both file_id and text_content, or
\* with neither, raises without an oracle request, whatever the gaps are.
C18_GapCardsCheckSource ==
    prog = "generate_gap_filling_cards" /\ pc = "done" /\ BothOrNeither =>
        err = "ValueError" /\ calls = NoCalls

(* ------------------- claims: recommended_removals ---------------------- *)

\* Every index g recommends for removal is that of a card of s.
RemovalsInRange(g, s) ==
    \A n \in 1..Len(g.recommended_removals) :
        /\ g.recommended_removals[n] >= 0
        /\ g.recommended_removals[n] < Len(s.flashcards)

\* C19: a KnowledgeGaps whose recommended_removals has an index outside the
\* cards of the session is rejected or clamped by the gap analysis: neither
\* the gaps handed to the adaptation nor the gaps stored in a deck carry
\* such an index.
C19_RemovalsValidated ==
    /\ gaps # NoGaps => RemovalsInRange(gaps, session)
    /\ \A n \in 1..Len(flashcard_decks) :
          LET deck == flashcard_decks[n]
          IN  deck.knowledge_gaps # NoGaps /\ deck.study_sessions # <<>> =>
                RemovalsInRange(deck.knowledge_gaps,
                    deck.study_sessions[Len(deck.study_sessions)])

(* ---------------------- claims: the empty card set --------------------- *)

\* The accepting critique judged the empty set.
EmptyAccepted == judged = <<>>

\* C20: an empty card set from generation is not fatal: the loop runs on it
\* (critique is called on the empty set), and once the oracle accepts it the
\* workflow goes on with it and completes normally with a zero-card set,
\* returned and exported by the CLI, stored as the deck by the web page.
C20_EmptySetCompletes ==
    /\ [](pc = "loop" /\ flashcards = <<>> /\ i < max_iterations =>
            ENABLED Critique)
    /\ [][pc = "loop" /\ flashcards = <<>> /\ is_acceptable'
          /\ calls'["critique"] = calls["critique"] + 1 /\ err' = err =>
            pc' = "after_loop" /\ judged' = <<>> /\ flashcards' = <<>>]_vars
    /\ [](EmptyAccepted => flashcards = <<>>)
    /\ [](EmptyAccepted /\ prog = "cli" /\ pc = "done" /\ err = "none"
          /\ session = NoSession =>
            returned = <<>> /\ exported = << <<>> >>)
    /\ [](EmptyAccepted /\ prog = "web" /\ pc = "idle" /\ err = "none"
          /\ deck_name \in DeckNames =>
            flashcard_decks[DeckIndex(deck_name)].flashcards = <<>>)
    /\ [](EmptyAccepted /\ pc \in {"after_loop", "idle"} => err = "none")

\* The CLI run generated no card, the first critique accepted, and the run
\* returned the empty set after exporting it.
C20_Witness ==
    /\ prog = "cli" /\ pc = "done" /\ err = "none"
    /\ EmptyAccepted
    /\ calls["critique"] = 1 /\ calls["revise"] = 0
    /\ returned = <<>> /\ exported = << <<>> >>

(* ------------------ claims: the deck evaluation ------------------------ *)

\* evaluate_flashcard_set has ended, by a return or by an exception that
\* the reply of the judge was not the cause of.
DeckJudged ==
    prog = "evaluate_flashcard_set" /\ pc = "done" /\ err # "evaluate"

\* The four criteria of the deck evaluation.
FourCriteria == {"atomicity", "clarity", "learning_value", "accuracy"}

\* C21: for every non-empty list of per-card evaluations,
\* evaluate_flashcard_set returns average_scores with exactly the four
\* criteria atomicity, clarity, learning_value and accuracy, each the mean of
\* that criterion over all cards, and overall_deck_score the mean of those
\* four averages.
C21_AveragesOfFourCriteria ==
    DeckJudged /\ evaluation.flashcard_evaluations # <<>> =>
        /\ err = "none"
        /\ evaluation.average_scores # None
        /\ DOMAIN evaluation.average_scores[1] = FourCriteria
        /\ \A c \in FourCriteria :
              /\ \A n \in 1..Len(evaluation.flashcard_evaluations) :
                    c \in DOMAIN evaluation.flashcard_evaluations[n]
              /\ FracEq(evaluation.average_scores[1][c],
                        Mean(ScoresOf(evaluation.flashcard_evaluations, c)))
        /\ evaluation.overall_deck_score # None
        /\ FracEq(evaluation.overall_deck_score[1],
                  OverallOf(evaluation.average_scores[1], 4))

\* C22: for an empty flashcard_evaluations list, evaluate_flashcard_set
\* raises nothing and returns overall_deck_score exactly 0.0.
C22_EmptyDeckScoresZero ==
    DeckJudged /\ evaluation.flashcard_evaluations = <<>> =>
        /\ err = "none"
        /\ evaluation.overall_deck_score # None
        /\ evaluation.overall_deck_score[1].den # 0
        /\ evaluation.overall_deck_score[1].num = 0

\* The judge sent no per-card evaluation and an overall score of its own,
\* and the evaluation was returned.
C22_Witness ==
    /\ DeckJudged /\ err = "none"
    /\ calls["evaluate"] = 1
    /\ evaluation.flashcard_evaluations = <<>>
    /\ evaluation.average_scores = Some(<<>>)
    /\ evaluation.overall_deck_score = Some(Zero)
    /\ flashcards # <<>>

\* C23: average_scores and overall_deck_score of a returned DeckEvaluation
\* are never those of the reply: two replies with the same
\* flashcard_evaluations list (empty or not) give the same average_scores
\* and the same overall_deck_score, whatever aggregates each carried.
C23_AggregatesNotSupplied ==
    DeckJudged /\ err = "none" /\ previous # NoPrevious
    /\ previous.flashcard_evaluations = evaluation.flashcard_evaluations =>
        /\ previous.average_scores = evaluation.average_scores
        /\ previous.overall_deck_score = evaluation.overall_deck_score

(* --------------- claims: the adaptation evaluation --------------------- *)

\* evaluate_adaptation has ended on a reply of the judge.
AdaptationJudged ==
    prog = "lib" /\ calls["evaluate"] = 1 /\ err # "evaluate"

\* C24: evaluate_adaptation returns overall_personalization ==
\* 0.6 * average_gap_personalization + 0.4 * average_removal_personalization,
\* each average the mean of the per-gap / per-removal personalization scores
\* (0.0 for an empty list); with both lists empty it returns
\* overall_personalization == 0.0 without raising.
C24_OverallPersonalization ==
    AdaptationJudged =>
        /\ err = "none"
        /\ {"average_gap_personalization", "average_removal_personalization",
            "overall_personalization"} \subseteq DOMAIN evaluation
        /\ FracEq(evaluation.average_gap_personalization,
                  AveragePersonalization(evaluation.gap_evaluations))
        /\ FracEq(evaluation.average_removal_personalization,
                  AveragePersonalization(evaluation.removal_evaluations))
        /\ FracEq(evaluation.overall_personalization,
                  Frac(6 * evaluation.average_gap_personalization.num
                         * evaluation.average_removal_personalization.den
                       + 4 * evaluation.average_removal_personalization.num
                           * evaluation.average_gap_personalization.den,
                       10 * evaluation.average_gap_personalization.den
                          * evaluation.average_removal_personalization.den))
        /\ (evaluation.gap_evaluations = <<>>
            /\ evaluation.removal_evaluations = <<>>
              => evaluation.overall_personalization.num = 0)

\* The session rates no card twice.
RatedOnce ==
    \A n, k \in 1..Len(session.ratings) :
        session.ratings[n].flashcard_index = session.ratings[k].flashcard_index
          => n = k

\* C26: in evaluate_adaptation, the user rating attached to each removed card
\* of an update that adaptive_update_flashcards produced from the same
\* original set and session is the rating the learner gave that very card
\* (difficulty 1), also when two cards of the original set share their
\* question text.
C26_RemovedCardKeepsItsRating ==
    prog = "lib" /\ calls["evaluate"] = 1 /\ RatedOnce =>
        \A m \in DOMAIN adaptive_result.cards_removed :
            removed_cards_text[m] = Some(MinDifficulty)

(* ---------------------- claims: the source file ------------------------ *)

\* The source file is missing, or of a suffix the entry point does not
\* take: .pdf for the command line, .pdf, .txt and .text for prepare_input.
BadInput ==
    \/ ~file_path.exists
    \/ prog = "cli" /\ file_path.suffix # ".pdf"
    \/ prog = "prepare_input"
       /\ file_path.suffix \notin {".pdf", ".txt", ".text"}

\* C25: a missing or unsupported source file is rejected before any oracle
\* request or upload: prepare_input raises for a path that does not exist
\* and for any suffix other than .pdf, .txt, .text, the CLI's upload_pdf for
\* a path that does not exist and any suffix other than .pdf, and the run
\* makes no oracle call.
C25_BadInputRejected ==
    BadInput =>
        /\ calls["upload"] = 0 /\ OracleCalls = 0
        /\ file_id = NoFile /\ text_content = NoText
        /\ pc \notin {"start", "prepare"} =>
              err = (IF file_path.exists THEN "ValueError"
                     ELSE "FileNotFoundError")

\* prepare_input has refused a file that exists and is neither a PDF nor a
\* text file.
C25_Witness ==
    /\ prog = "prepare_input" /\ pc = "done"
    /\ file_path.exists /\ file_path.suffix = ".doc"
    /\ err = "ValueError"
    /\ calls = NoCalls

(* ------------------- claims: a card rated several times ---------------- *)

\* The positions in session.ratings of the ratings of the card at index x.
RatingsOf(x) ==
    {n \in 1..Len(session.ratings) : session.ratings[n].flashcard_index = x}

\* The indices the session rates more than once.
RatedSeveralTimes ==
    {x \in 0..(Len(flashcards) - 1) : Cardinality(RatingsOf(x)) > 1}

\* C27: a card with several ratings in the session is removed by the adaptive
\* update if and only if at least one of them has difficulty 1, whatever the
\* order of the ratings and whatever a later rating says; it is then removed
\* once: one entry of cards_removed, none of final_flashcards.
C27_AnyMasteredRatingRemoves ==
    UpdateReturned =>
        \A x \in RatedSeveralTimes :
            LET once == \E n \in RatingsOf(x) :
                            session.ratings[n].difficulty = MinDifficulty
                card == flashcards[x + 1]
                removed == adaptive_result.cards_removed
                final == adaptive_result.final_flashcards
            IN  /\ once <=> x \in DOMAIN removed
                /\ once =>
                     /\ Cardinality({m \in DOMAIN removed : removed[m] = card})
                            = 1
                     /\ \A q \in 1..Len(final) : final[q] # card
                /\ ~once =>
                     /\ \A m \in DOMAIN removed : removed[m] # card
                     /\ Cardinality({q \in 1..Len(final) : final[q] = card})
                            = 1

\* A card was rated 1 and later rated harder, and the update removed it.
C27_Witness ==
    /\ UpdateReturned
    /\ \E n, k \in 1..Len(session.ratings) :
          /\ n < k
          /\ session.ratings[n].flashcard_index
                 = session.ratings[k].flashcard_index
          /\ session.ratings[n].difficulty = MinDifficulty
          /\ session.ratings[k].difficulty > MinDifficulty
          /\ session.ratings[n].flashcard_index
                 \in DOMAIN adaptive_result.cards_removed
          /\ Len(adaptive_result.final_flashcards) > 0

(* ------------------- claims: no iteration asked for -------------------- *)

\* create_flashcards was called with max_iterations <= 0.
NoIterations == prog = "cli" /\ max_iterations <= 0

\* C28: with max_iterations <= 0 the loop of create_flashcards makes no
\* critique call and no revise call, and the card set passed on to the export
\* or to the study session is exactly the freshly generated set.
C28_NoIterationsNoLoop ==
    /\ [](NoIterations => calls["critique"] = 0 /\ calls["revise"] = 0)
    /\ [][NoIterations /\ pc = "generate" /\ pc' = "loop" =>
            calls'["generate"] = 1 /\ flashcards' \in OracleSets]_vars
    /\ [][NoIterations /\ pc # "generate" => flashcards' = flashcards]_vars
    /\ [](NoIterations /\ session = NoSession /\ exported # <<>> =>
            exported[1] = flashcards)
    /\ [](NoIterations /\ session # NoSession =>
            session.flashcards = flashcards)

\* A run with a negative --iterations has generated cards, asked for no
\* critique, and exported and returned the generated set.
C28_Witness ==
    /\ prog = "cli" /\ max_iterations < 0
    /\ pc = "done" /\ err = "none"
    /\ calls["generate"] = 1 /\ calls["critique"] = 0 /\ calls["revise"] = 0
    /\ flashcards # <<>>
    /\ exported = <<flashcards>>
    /\ returned = flashcards

(* ------------------- claims: the ratings of the page ------------------- *)

\* st.session_state.ratings or current_flashcard_index changes in the step.
StudyStateChanges ==
    ratings' # ratings \/ current_flashcard_index' # current_flashcard_index

\* A rating click: one rating appended, the index advanced by one.
RatingClicked ==
    /\ Len(ratings') = Len(ratings) + 1
    /\ SubSeq(ratings', 1, Len(ratings)) = ratings
    /\ current_flashcard_index' = current_flashcard_index + 1

\* Both are set back to empty / 0.
StudyStateReset == ratings' = <<>> /\ current_flashcard_index' = 0

\* The step is "Restart Study Session", or the end of a successful
\* adaptation.
RestartOrAdapted ==
    \/ /\ pc = "idle" /\ SessionComplete
       /\ flashcard_decks' = flashcard_decks
       /\ selected_deck' = selected_deck
    \/ pc = "web_commit"

\* The step is the sidebar's "Reset Session".
SessionReset == pc = "idle" /\ flashcard_decks # <<>> /\ flashcard_decks' = <<>>

\* len(ratings) == current_flashcard_index, and the i-th rating has
\* flashcard_index i and a difficulty in 1..5.
RatingsFollowIndex ==
    /\ Len(ratings) = current_flashcard_index
    /\ \A n \in 1..Len(ratings) :
          /\ ratings[n].flashcard_index = n - 1
          /\ ratings[n].difficulty \in MinDifficulty..MaxDifficulty

\* C29: in every reachable state of the web UI len(ratings) ==
\* current_flashcard_index and the i-th rating has flashcard_index i and a
\* difficulty in 1..5: a rating click appends one rating and advances the
\* index by one, a restart or a successful adaptation sets both back to
\* empty / 0, and no other action changes either.
C29_OnlyRestartOrAdaptationResets ==
    /\ [](prog = "web" => RatingsFollowIndex)
    /\ [][prog = "web" /\ StudyStateChanges =>
            \/ RatingClicked
            \/ RestartOrAdapted /\ StudyStateReset]_vars

\* C29, amended: as above, and the sidebar's "Reset Session" sets both back
\* to empty / 0 as well; no other action changes either.
C29_RatingsFollowIndex ==
    /\ [](prog = "web" => RatingsFollowIndex)
    /\ [][prog = "web" /\ StudyStateChanges =>
            \/ RatingClicked
            \/ (RestartOrAdapted \/ SessionReset) /\ StudyStateReset]_vars
    /\ [][prog = "web" /\ (RestartOrAdapted \/ SessionReset) =>
            StudyStateReset]_vars

\* A second study session is under way: the deck was adapted once, the
\* page was reset, and cards have been rated since.
C29_Witness ==
    /\ prog = "web" /\ pc = "idle"
    /\ HasCurrentDeck
    /\ CurrentDeck.adaptive_update # NoUpdate
    /\ Len(ratings) >= 2
    /\ current_flashcard_index = Len(ratings)

(* ------------- claims: the stored gaps and the stored update ----------- *)

\* The deck's most recently saved session: study_sessions[-1].
LatestSession(deck) == deck.study_sessions[Len(deck.study_sessions)]

\* The stored update is one adaptive_update_flashcards builds from session s.
UpdateFrom(update, s) ==
    /\ update.original_count = Len(s.flashcards)
    /\ DOMAIN update.cards_removed
           = {s.ratings[n].flashcard_index :
                 n \in {k \in 1..Len(s.ratings) :
                           s.ratings[k].difficulty = MinDifficulty}}

\* C30: in every reachable state of the web UI, each deck's stored
\* knowledge_gaps and adaptive_update are either both unset or both computed
\* from the same study session, the deck's most recently saved one, also
\* after a save action whose gap analysis succeeds and whose adaptive update
\* then fails.
C30_GapsAndUpdateAgree ==
    prog = "web" /\ pc = "idle" =>
        \A n \in 1..Len(flashcard_decks) :
            LET deck == flashcard_decks[n]
            IN  \/ deck.knowledge_gaps = NoGaps /\ deck.adaptive_update = NoUpdate
                \/ /\ deck.knowledge_gaps # NoGaps
                   /\ deck.adaptive_update # NoUpdate
                   /\ deck.study_sessions # <<>>
                   /\ deck.adaptive_update.gap_report
                          = deck.knowledge_gaps.gap_report
                   /\ UpdateFrom(deck.adaptive_update, LatestSession(deck))

=============================================================================
